---------------------------- MODULE Spec2Model ----------------------------
(***************************************************************************)
(* Real-time audio bridge of meeting-bot: the Gemini Live translator       *)
(* (src/src/geminiLive.js), its codec and resampler (src/src/audio.js) and *)
(* the earlier translator variant kept in src/unnamed/part_000.            *)
(*                                                                         *)
(* Buffers are sequences of bytes (0..255).  A "null" reference is 0; a    *)
(* session, a connection attempt and a subprocess are positive numbers.    *)
(***************************************************************************)
EXTENDS Integers, Sequences, FiniteSets, TLC

(***************************************************************************)
(* Program constants.                                                      *)
(***************************************************************************)
GEMINI_FRAME_BYTES == 320
FRAME_SAMPLES == 160
FRAME_BYTES_PCM16 == FRAME_SAMPLES * 2
FRAME_BYTES_MULAW == 160
FALLBACK_MIN_CHUNK_MS == 250
FALLBACK_MIN_CHUNK_BYTES_24K == ((24000 * FALLBACK_MIN_CHUNK_MS) \div 1000) * 2
OUT_SAMPLE_RATE == 8000
MULAW_BIAS == 132
MULAW_MAX == 32635
MULAW_SILENCE == 127
WS_OPEN == 1

(***************************************************************************)
(* Buffer primitives (Node's Buffer).                                      *)
(***************************************************************************)
Min(a, b) == IF a < b THEN a ELSE b
Max(a, b) == IF a > b THEN a ELSE b

\* A buffer given byte by byte, held as a tuple of bytes.
Bytes(f) == f \o <<>>

\* Buffer.alloc(n, b): n bytes of value b.
BufferAlloc(n, b) == Bytes([i \in 1..n |-> b])

\* buf.subarray(start, end): zero-based, end exclusive, both clamped.
Subarray(buf, start, end) ==
  LET s == Min(Max(start, 0), Len(buf))
      e == Min(Max(end, s), Len(buf))
  IN  SubSeq(buf, s + 1, e)

\* buf.subarray(start)
SubarrayFrom(buf, start) == Subarray(buf, start, Len(buf))

\* buf.readInt16LE(off): little-endian two's complement.
ReadInt16LE(buf, off) ==
  LET u == buf[off + 1] + 256 * buf[off + 2]
  IN  IF u >= 32768 THEN u - 65536 ELSE u

\* buf.writeInt16LE(v): the two bytes of a 16-bit value.
Int16LEBytes(v) ==
  LET u == IF v < 0 THEN v + 65536 ELSE v
  IN  <<u % 256, u \div 256>>

(***************************************************************************)
(* Codec (audio.js).                                                       *)
(***************************************************************************)
Pow2(n) == <<1, 2, 4, 8, 16, 32, 64, 128, 256, 512, 1024>>[n + 1]

\* The segment search of pcmToMulaw, its loop unrolled: the first exp in
\* 0..7 with sample <= (0x1f << (exp + 2)), 7 when there is none.
MulawExponent(sample) ==
  IF sample <= 124 THEN 0 ELSE IF sample <= 248 THEN 1
  ELSE IF sample <= 496 THEN 2 ELSE IF sample <= 992 THEN 3
  ELSE IF sample <= 1984 THEN 4 ELSE IF sample <= 3968 THEN 5
  ELSE IF sample <= 7936 THEN 6 ELSE 7

\* One sample of pcmToMulaw: a signed 16-bit value to a mu-law byte.
MulawEncodeSample(s) ==
  LET mag == IF s < 0 THEN -s ELSE s
      biased == (IF mag > MULAW_MAX THEN MULAW_MAX ELSE mag) + MULAW_BIAS
      exponent == MulawExponent(biased)
  IN  255 - ((IF s < 0 THEN 128 ELSE 0) + exponent * 16
             + ((biased \div Pow2(exponent + 3)) % 16))

\* pcmToMulaw(pcmBuf): one byte per 16-bit sample.
pcmToMulaw(pcmBuf) ==
  Bytes([i \in 1..(Len(pcmBuf) \div 2) |->
           MulawEncodeSample(ReadInt16LE(pcmBuf, (i - 1) * 2))])

\* One entry of MULAW_DECODE_TABLE.
MulawDecodeEntry(i) ==
  LET u == 255 - i
      sign == IF u >= 128 THEN -1 ELSE 1
      exponent == (u \div 16) % 8
      mantissa == u % 16
      sample == ((mantissa * 8) + MULAW_BIAS) * Pow2(exponent) - MULAW_BIAS
  IN  sign * sample

\* A mulawToPcm that writes the low byte of each sample only.
mulawToPcm_LowByte(mulawBuf) ==
  Bytes([i \in 1..Len(mulawBuf) |-> MulawDecodeEntry(mulawBuf[i]) % 256])

\* mulawToPcm(mulawBuf): one 16-bit sample, little-endian, per byte.
mulawToPcm(mulawBuf) ==
  Bytes([i \in 1..(2 * Len(mulawBuf)) |->
           Int16LEBytes(MulawDecodeEntry(mulawBuf[(i + 1) \div 2]))[((i - 1) % 2) + 1]])

(***************************************************************************)
(* Resampler (audio.js).  i / ratio and inputSamples * ratio are computed  *)
(* in integers: for the rates used here (8000, 16000, 24000) the doubles   *)
(* of the source give the same floor and the same rounded sample.          *)
(***************************************************************************)
\* Math.round(num / den) for den > 0: halves round towards +infinity.
RoundDiv(num, den) == (2 * num + den) \div (2 * den)

\* A resamplePcm16 that drops a dangling byte before it compares the rates.
resamplePcm16_AlignFirst(pcmBuffer, fromRate, toRate) ==
  IF Len(pcmBuffer) % 2 # 0 THEN Subarray(pcmBuffer, 0, Len(pcmBuffer) - 1) ELSE pcmBuffer

\* A resamplePcm16 that takes the source sample at or before each output
\* position instead of interpolating between the two around it.
resamplePcm16_Nearest(pcmBuffer, fromRate, toRate) ==
  IF fromRate = toRate \/ Len(pcmBuffer) = 0 THEN pcmBuffer
  ELSE
    LET inputSamples == Len(pcmBuffer) \div 2
        outputSamples == (inputSamples * toRate) \div fromRate
    IN  Bytes([k \in 1..(outputSamples * 2) |->
                 pcmBuffer[((((k - 1) \div 2) * fromRate) \div toRate) * 2 + ((k - 1) % 2) + 1]])

\* resamplePcm16(pcmBuffer, fromRate, toRate)
resamplePcm16(pcmBuffer, fromRate, toRate) ==
  IF fromRate = toRate THEN pcmBuffer
  ELSE IF Len(pcmBuffer) = 0 THEN pcmBuffer
  ELSE
    LET buf == IF Len(pcmBuffer) % 2 # 0
               THEN Subarray(pcmBuffer, 0, Len(pcmBuffer) - 1) ELSE pcmBuffer
        inputSamples == Len(buf) \div 2
        outputSamples == Max(0, (inputSamples * toRate) \div fromRate)
        Sample(i) ==
          LET srcIndexFloor == (i * fromRate) \div toRate
              srcIndexCeil == Min(srcIndexFloor + 1, inputSamples - 1)
              tNum == (i * fromRate) % toRate
              sample1 == ReadInt16LE(buf, srcIndexFloor * 2)
              sample2 == ReadInt16LE(buf, srcIndexCeil * 2)
          IN  RoundDiv(sample1 * toRate + (sample2 - sample1) * tNum, toRate)
        out == Bytes([i \in 1..outputSamples |-> Int16LEBytes(Sample(i - 1))])
    IN  Bytes([k \in 1..(outputSamples * 2) |-> out[((k - 1) \div 2) + 1][((k - 1) % 2) + 1]])

(***************************************************************************)
(* State.  The first block holds the closure variables of                  *)
(* createGeminiLiveTranslator, the second the collaborators it talks to,   *)
(* the third history variables that only record what happened.            *)
(***************************************************************************)
VARIABLES
  geminiClient,             \* TRUE when an API key gave the instance a client
  geminiSession,            \* 0, or the session the instance refers to
  geminiConnectPromise,     \* 0, or the connection attempt in flight
  geminiFrameCarry,         \* inbound PCM not yet sent to the backend
  geminiInPcmChunks,        \* part_000: inbound chunks waiting for the flush timer
  geminiInFlushTimer,       \* part_000: TRUE while the flush interval is set
  outboundMulawQueue,       \* sequence of mu-law buffers awaiting the pacer
  outboundPlaybackTimer,    \* TRUE while the 20 ms interval is set
  ffmpegResampler,          \* 0, or the subprocess attached to the instance
  ffmpegUnavailable,        \* TRUE once the instance fell back to linear resampling
  ffmpegPcmCarry,           \* odd byte carried between stdout chunks
  outboundPcm8kRemainder,   \* partial PCM frame carried between pushes
  fallbackPcm24kBuffer,     \* buffer of the in-process resampler (only ever emptied)
  currentTurnTranscript,    \* words of the transcript of the current turn
  wsReadyState,             \* ws.readyState
  streamSid,                \* what getStreamSid() returns (0: none)
  wsSent,                   \* messages handed to ws.send, in order
  procs,                    \* subprocesses spawned: [alive, out, closeCode, events]
  connects,                 \* live.connect calls: [state, waiters]
  sessions,                 \* backend sessions: [state, received]
  bridge,                   \* part_001: the server's module-level variables and its calls
  audioLib,                 \* audio.js: a buffer given to its codec or resampler, and the results
  hist                      \* history: epochs, framer log, call log, input budget

vars == <<geminiClient, geminiSession, geminiConnectPromise, geminiFrameCarry,
          geminiInPcmChunks, geminiInFlushTimer, outboundMulawQueue,
          outboundPlaybackTimer, ffmpegResampler, ffmpegUnavailable, ffmpegPcmCarry,
          outboundPcm8kRemainder, fallbackPcm24kBuffer, currentTurnTranscript,
          wsReadyState, streamSid, wsSent, procs, connects, sessions, bridge, audioLib,
          hist>>

\* The whole state as one record, so that a function of the source that
\* assigns several variables is one operator from state to state.
World ==
  [geminiClient |-> geminiClient, geminiSession |-> geminiSession, geminiConnectPromise |-> geminiConnectPromise,
   geminiFrameCarry |-> geminiFrameCarry, geminiInPcmChunks |-> geminiInPcmChunks,
   geminiInFlushTimer |-> geminiInFlushTimer, outboundMulawQueue |-> outboundMulawQueue,
   outboundPlaybackTimer |-> outboundPlaybackTimer, ffmpegResampler |-> ffmpegResampler,
   ffmpegUnavailable |-> ffmpegUnavailable, ffmpegPcmCarry |-> ffmpegPcmCarry,
   outboundPcm8kRemainder |-> outboundPcm8kRemainder,
   fallbackPcm24kBuffer |-> fallbackPcm24kBuffer,
   currentTurnTranscript |-> currentTurnTranscript, wsReadyState |-> wsReadyState,
   streamSid |-> streamSid, wsSent |-> wsSent, procs |-> procs, connects |-> connects,
   sessions |-> sessions, bridge |-> bridge, audioLib |-> audioLib,
   hist |-> hist]

Becomes(w) ==
  /\ geminiClient' = w.geminiClient
  /\ geminiSession' = w.geminiSession
  /\ geminiConnectPromise' = w.geminiConnectPromise
  /\ geminiFrameCarry' = w.geminiFrameCarry
  /\ geminiInPcmChunks' = w.geminiInPcmChunks
  /\ geminiInFlushTimer' = w.geminiInFlushTimer
  /\ outboundMulawQueue' = w.outboundMulawQueue
  /\ outboundPlaybackTimer' = w.outboundPlaybackTimer
  /\ ffmpegResampler' = w.ffmpegResampler
  /\ ffmpegUnavailable' = w.ffmpegUnavailable
  /\ ffmpegPcmCarry' = w.ffmpegPcmCarry
  /\ outboundPcm8kRemainder' = w.outboundPcm8kRemainder
  /\ fallbackPcm24kBuffer' = w.fallbackPcm24kBuffer
  /\ currentTurnTranscript' = w.currentTurnTranscript
  /\ wsReadyState' = w.wsReadyState
  /\ streamSid' = w.streamSid
  /\ wsSent' = w.wsSent
  /\ procs' = w.procs
  /\ connects' = w.connects
  /\ sessions' = w.sessions
  /\ bridge' = w.bridge
  /\ audioLib' = w.audioLib
  /\ hist' = w.hist

(***************************************************************************)
(* History.  epoch counts the cancellations (interruptions and stops) so   *)
(* far; every buffer of outbound audio carries the epoch in which the      *)
(* oldest byte in it was produced, so that audio older than the latest     *)
(* cancellation can be told from audio produced after it.                  *)
(***************************************************************************)
HistInit ==
  [epoch |-> 0,           \* cancellations handled so far
   inEpoch |-> 0,         \* epoch of the bytes being pushed into the framer
   queueEpoch |-> <<>>,   \* per queued buffer: epoch of its oldest byte
   remEpoch |-> 0,        \* of outboundPcm8kRemainder
   carryEpoch |-> 0,      \* of ffmpegPcmCarry
   accepted |-> <<>>,     \* PCM bytes the framer accepted since the last reset
   emitted |-> <<>>,      \* PCM bytes of the frames the framer emitted since then
   nFrames |-> 0,         \* frames the framer emitted since the last reset
   calls |-> <<>>,        \* ensureGeminiSession calls, see CallRecord
   dropped |-> 0,         \* queued buffers discarded by a reset or a stop
   pushed |-> 0,          \* bytes handed to the framer since the last reset
   pads |-> 0,            \* frames the framer padded with silence since then
   cuts |-> <<>>,         \* the cancellations in order: "interrupted" or "stop"
   lastOp |-> "init",     \* the operation that ran last
   prevOp |-> "",         \* the operation that ran before a flush, "" otherwise
   lastEmit |-> 0,        \* frames the framer emitted during the last operation
   lastTrack |-> "none",  \* the track tag of the handleInboundPcm call that ran last
   threw |-> <<FALSE, FALSE>>, \* the last stop(): audioStreamEnd threw, close threw
   intervals |-> 0,       \* pacing intervals set by setInterval and not cleared
   sendThrows |-> FALSE,  \* the transport is broken: the next ws.send throws
   uncaught |-> 0,        \* exceptions that left a callback of the translator
   lastTts |-> <<>>,      \* the audio the playTts call that ran last synthesized
   left |-> [call |-> 0, event |-> 0, audio |-> 0, proc |-> 0]]

(***************************************************************************)
(* Playback pacer.                                                         *)
(***************************************************************************)
\* An ensureOutboundPlayback that sets a new interval whether or not one
\* is set, overwriting the handle of the one that runs.
ensureOutboundPlayback_NoGuard(w) ==
  [w EXCEPT !.outboundPlaybackTimer = TRUE, !.hist.intervals = @ + 1]

\* ensureOutboundPlayback(): setInterval unless the timer is set.
ensureOutboundPlayback(w) ==
  IF w.outboundPlaybackTimer THEN w
  ELSE [w EXCEPT !.outboundPlaybackTimer = TRUE, !.hist.intervals = @ + 1]

\* stopOutboundPlayback(): clearInterval if the timer is set.
stopOutboundPlayback(w) ==
  IF ~w.outboundPlaybackTimer THEN w
  ELSE [w EXCEPT !.outboundPlaybackTimer = FALSE, !.hist.intervals = @ - 1]

\* A sendMark that sends the 'mark' message twice.
sendMark_Twice(w, sid) ==
  LET mark == [event |-> "mark", streamSid |-> sid, payload |-> <<>>,
               epoch |-> w.hist.epoch, made |-> w.hist.epoch, pad |-> 0]
  IN  IF w.hist.sendThrows THEN [w EXCEPT !.hist.sendThrows = FALSE]
      ELSE [w EXCEPT !.wsSent = @ \o <<mark, mark>>]

\* sendMark(streamSid): one 'mark' message.  A ws.send that throws sends
\* nothing and is caught by the try of lines 256-260: nothing leaves the
\* function.
sendMark(w, sid) ==
  IF w.hist.sendThrows THEN [w EXCEPT !.hist.sendThrows = FALSE]
  ELSE [w EXCEPT !.wsSent = Append(@, [event |-> "mark", streamSid |-> sid,
                                       payload |-> <<>>, epoch |-> w.hist.epoch,
                                       made |-> w.hist.epoch, pad |-> 0])]

\* A sendOneOutboundFrame that sends the mark but leaves the interval set
\* when the queue drains.
sendOneOutboundFrame_NoStop(w) ==
  IF w.streamSid = 0 \/ w.wsReadyState # WS_OPEN THEN stopOutboundPlayback(w)
  ELSE IF Len(w.outboundMulawQueue) = 0 THEN stopOutboundPlayback(w)
  ELSE
    LET frame == Head(w.outboundMulawQueue)
        w1 == [w EXCEPT !.outboundMulawQueue = Tail(@),
                        !.hist.queueEpoch = Tail(@)]
    IN  IF Len(frame) # 160 THEN w1
        ELSE
          LET w2 == [w1 EXCEPT !.wsSent =
                       Append(@, [event |-> "media", streamSid |-> w.streamSid,
                                  payload |-> frame, epoch |-> w.hist.epoch,
                                  made |-> Head(w.hist.queueEpoch), pad |-> 0])]
          IN  IF Len(w2.outboundMulawQueue) = 0
              THEN sendMark(w2, w.streamSid)
              ELSE w2

\* A sendOneOutboundFrame that does not check the size of the frame.
sendOneOutboundFrame_AnySize(w) ==
  IF w.streamSid = 0 \/ w.wsReadyState # WS_OPEN THEN stopOutboundPlayback(w)
  ELSE IF Len(w.outboundMulawQueue) = 0 THEN stopOutboundPlayback(w)
  ELSE
    LET frame == Head(w.outboundMulawQueue)
        w1 == [w EXCEPT !.outboundMulawQueue = Tail(@),
                        !.hist.queueEpoch = Tail(@)]
        w2 == [w1 EXCEPT !.wsSent =
                 Append(@, [event |-> "media", streamSid |-> w.streamSid,
                            payload |-> frame, epoch |-> w.hist.epoch,
                            made |-> Head(w.hist.queueEpoch), pad |-> 0])]
    IN  IF Len(w2.outboundMulawQueue) = 0
        THEN stopOutboundPlayback(sendMark(w2, w.streamSid))
        ELSE w2

\* A sendOneOutboundFrame that skips the frame behind the one it sends.
sendOneOutboundFrame_Skip(w) ==
  IF w.streamSid = 0 \/ w.wsReadyState # WS_OPEN THEN stopOutboundPlayback(w)
  ELSE IF Len(w.outboundMulawQueue) = 0 THEN stopOutboundPlayback(w)
  ELSE
    LET frame == Head(w.outboundMulawQueue)
        n == Min(2, Len(w.outboundMulawQueue))
        w1 == [w EXCEPT !.outboundMulawQueue = SubSeq(@, n + 1, Len(@)),
                        !.hist.queueEpoch = SubSeq(@, n + 1, Len(@))]
        w2 == [w1 EXCEPT !.wsSent =
                 Append(@, [event |-> "media", streamSid |-> w.streamSid,
                            payload |-> frame, epoch |-> w.hist.epoch,
                            made |-> Head(w.hist.queueEpoch), pad |-> 0])]
    IN  IF Len(w2.outboundMulawQueue) = 0
        THEN stopOutboundPlayback(sendMark(w2, w.streamSid))
        ELSE w2

\* sendOneOutboundFrame(): the interval's callback.
sendOneOutboundFrame(w) ==
  IF w.streamSid = 0 \/ w.wsReadyState # WS_OPEN THEN stopOutboundPlayback(w)
  ELSE IF Len(w.outboundMulawQueue) = 0 THEN stopOutboundPlayback(w)
  ELSE
    LET frame == Head(w.outboundMulawQueue)
        w1 == [w EXCEPT !.outboundMulawQueue = Tail(@),
                        !.hist.queueEpoch = Tail(@)]
    IN  \* "if (!frame)" cannot hold: the queue is non-empty and a Buffer is truthy.
        IF Len(frame) # 160 THEN w1
        ELSE IF w.hist.sendThrows
        THEN \* ws.send is not inside a try: the exception leaves the callback
             [w1 EXCEPT !.hist.sendThrows = FALSE, !.hist.uncaught = @ + 1]
        ELSE
          LET w2 == [w1 EXCEPT !.wsSent =
                       Append(@, [event |-> "media", streamSid |-> w.streamSid,
                                  payload |-> frame, epoch |-> w.hist.epoch,
                                  made |-> Head(w.hist.queueEpoch), pad |-> 0])]
          IN  IF Len(w2.outboundMulawQueue) = 0
              THEN stopOutboundPlayback(sendMark(w2, w.streamSid))
              ELSE w2

(***************************************************************************)
(* Outbound framer.                                                        *)
(***************************************************************************)
\* The while loop of enqueueOutboundPcm8k: one frame per iteration while a
\* whole frame is left at offset; yields the frames and the final offset.
RECURSIVE FrameLoop_Strict(_, _, _)
FrameLoop_Strict(buf, offset, frames) ==
  IF offset + FRAME_BYTES_PCM16 < Len(buf)
  THEN FrameLoop_Strict(buf, offset + FRAME_BYTES_PCM16,
                 Append(frames, pcmToMulaw(Subarray(buf, offset, offset + FRAME_BYTES_PCM16))))
  ELSE [frames |-> frames, offset |-> offset]

RECURSIVE FrameLoop(_, _, _)
FrameLoop(buf, offset, frames) ==
  IF offset + FRAME_BYTES_PCM16 <= Len(buf)
  THEN FrameLoop(buf, offset + FRAME_BYTES_PCM16,
                 Append(frames, pcmToMulaw(Subarray(buf, offset, offset + FRAME_BYTES_PCM16))))
  ELSE [frames |-> frames, offset |-> offset]

\* An enqueueOutboundPcm8k that frames the chunk given on its own: the
\* partial frame kept from the chunk before is not put in front of it.
enqueueOutboundPcm8k_DropRemainder(w, pcm8k) ==
  IF Len(pcm8k) = 0 THEN w
  ELSE
    LET aligned == IF Len(pcm8k) % 2 # 0 THEN Subarray(pcm8k, 0, Len(pcm8k) - 1) ELSE pcm8k
    IN  IF Len(aligned) = 0 THEN w
        ELSE
          LET r == FrameLoop(aligned, 0, <<>>)
              n == Len(r.frames)
              w1 == [w EXCEPT
                       !.outboundMulawQueue = @ \o r.frames,
                       !.outboundPcm8kRemainder = SubarrayFrom(aligned, r.offset),
                       !.hist.queueEpoch = @ \o [k \in 1..n |-> w.hist.inEpoch],
                       !.hist.remEpoch = w.hist.inEpoch,
                       !.hist.accepted = @ \o aligned,
                       !.hist.emitted = @ \o Subarray(aligned, 0, r.offset),
                       !.hist.nFrames = @ + n,
                       !.hist.lastEmit = @ + n]
          IN  IF Len(w1.outboundMulawQueue) > 0 THEN ensureOutboundPlayback(w1) ELSE w1

\* enqueueOutboundPcm8k(pcm8k)
enqueueOutboundPcm8k(w, pcm8k) ==
  IF Len(pcm8k) = 0 THEN w
  ELSE
    LET aligned == IF Len(pcm8k) % 2 # 0 THEN Subarray(pcm8k, 0, Len(pcm8k) - 1) ELSE pcm8k
    IN  IF Len(aligned) = 0 THEN w
        ELSE
          LET hadRem == Len(w.outboundPcm8kRemainder) > 0
              buf == IF hadRem THEN w.outboundPcm8kRemainder \o aligned ELSE aligned
              r == FrameLoop(buf, 0, <<>>)
              n == Len(r.frames)
              e == IF hadRem THEN Min(w.hist.remEpoch, w.hist.inEpoch) ELSE w.hist.inEpoch
              w1 == [w EXCEPT
                       !.outboundMulawQueue = @ \o r.frames,
                       !.outboundPcm8kRemainder = SubarrayFrom(buf, r.offset),
                       !.hist.queueEpoch = @ \o [k \in 1..n |-> IF k = 1 THEN e ELSE w.hist.inEpoch],
                       !.hist.remEpoch = IF n = 0 THEN e ELSE w.hist.inEpoch,
                       !.hist.accepted = @ \o aligned,
                       !.hist.emitted = @ \o Subarray(buf, 0, r.offset),
                       !.hist.nFrames = @ + n,
                       !.hist.lastEmit = @ + n]
          IN  IF Len(w1.outboundMulawQueue) > 0 THEN ensureOutboundPlayback(w1) ELSE w1

\* A flushOutboundPcmRemainderWithSilence that forgets to empty the remainder.
flushOutboundPcmRemainderWithSilence_KeepCarry(w) ==
  IF Len(w.outboundPcm8kRemainder) = 0 THEN w
  ELSE
    LET padded == w.outboundPcm8kRemainder
                    \o BufferAlloc(FRAME_BYTES_PCM16 - Len(w.outboundPcm8kRemainder), 0)
        w1 == [w EXCEPT !.hist.pads = @ + 1,
                        !.hist.inEpoch = w.hist.remEpoch]
    IN  enqueueOutboundPcm8k(w1, padded)

\* flushOutboundPcmRemainderWithSilence()
flushOutboundPcmRemainderWithSilence(w) ==
  IF Len(w.outboundPcm8kRemainder) = 0 THEN w
  ELSE
    LET padded == w.outboundPcm8kRemainder
                    \o BufferAlloc(FRAME_BYTES_PCM16 - Len(w.outboundPcm8kRemainder), 0)
        w1 == [w EXCEPT !.outboundPcm8kRemainder = <<>>,
                        !.hist.pads = @ + 1,
                        !.hist.inEpoch = w.hist.remEpoch,
                        \* the carried bytes are pushed again, now with the padding
                        !.hist.accepted = Subarray(@, 0, Len(@) - Len(w.outboundPcm8kRemainder))]
    IN  enqueueOutboundPcm8k(w1, padded)

(***************************************************************************)
(* Resampler subprocess.  A subprocess record is                           *)
(*   alive     the process runs (not yet killed, crashed or exited)        *)
(*   stdinOpen stdin has not been ended and no exit was reported           *)
(*   pending   bytes it wrote to its stdout pipe, not yet read by 'data'   *)
(*   code      0: exit code 0; 1: any other code or a signal               *)
(*   closed    its 'close' event was delivered                             *)
(***************************************************************************)
NewProc == [alive |-> TRUE, stdinOpen |-> TRUE, pending |-> <<>>, pendingEpoch |-> 0,
            code |-> 0, closed |-> FALSE, errored |-> FALSE]

\* stopFfmpegResampler(): stdin.end(), kill('SIGKILL'), detach.
stopFfmpegResampler(w) ==
  LET w1 == [w EXCEPT !.ffmpegPcmCarry = <<>>]
      p == w.ffmpegResampler
  IN  IF p = 0 THEN w1
      ELSE [w1 EXCEPT !.ffmpegResampler = 0,
                      !.procs[p].stdinOpen = FALSE,
                      !.procs[p].code = IF w.procs[p].alive THEN 1 ELSE @,
                      !.procs[p].alive = FALSE]

\* startFfmpegResampler(); spawnOk = FALSE is spawn() throwing.
startFfmpegResampler(w, spawnOk) ==
  IF w.ffmpegResampler # 0 \/ w.ffmpegUnavailable THEN w
  ELSE IF ~spawnOk THEN [w EXCEPT !.ffmpegUnavailable = TRUE, !.ffmpegResampler = 0]
  ELSE [w EXCEPT !.procs = Append(@, NewProc), !.ffmpegResampler = Len(w.procs) + 1]

\* An 'error' listener that detaches the subprocess but does not record
\* that the resampler is unavailable.
onFfmpegError_NoFlag(w) == stopFfmpegResampler(w)

\* ffmpegResampler.on('error', ...)
onFfmpegError(w) == stopFfmpegResampler([w EXCEPT !.ffmpegUnavailable = TRUE])

\* ffmpegResampler.on('close', (code, signal) => ...)
onFfmpegClose(w, code) ==
  IF w.ffmpegUnavailable THEN w
  ELSE IF code = 0 THEN w
  ELSE stopFfmpegResampler([w EXCEPT !.ffmpegUnavailable = TRUE])

\* A 'data' listener that drops the odd byte of a chunk instead of
\* carrying it to the next one.
onFfmpegStdoutData_NoCarry(w, chunk) ==
  LET buf == IF Len(chunk) % 2 # 0 THEN Subarray(chunk, 0, Len(chunk) - 1) ELSE chunk
      w1 == [w EXCEPT !.ffmpegPcmCarry = <<>>, !.hist.carryEpoch = w.hist.inEpoch,
                      !.hist.pushed = @ + Len(buf)]
  IN  IF Len(buf) = 0 THEN w1 ELSE enqueueOutboundPcm8k(w1, buf)

\* ffmpegResampler.stdout.on('data', (chunk) => ...)
onFfmpegStdoutData(w, chunk) ==
  LET joined == IF Len(w.ffmpegPcmCarry) > 0 THEN w.ffmpegPcmCarry \o chunk ELSE chunk
      odd == Len(joined) % 2 # 0
      buf == IF odd THEN Subarray(joined, 0, Len(joined) - 1) ELSE joined
      e == IF Len(w.ffmpegPcmCarry) > 0 THEN Min(w.hist.carryEpoch, w.hist.inEpoch)
           ELSE w.hist.inEpoch
      w1 == [w EXCEPT !.ffmpegPcmCarry = IF odd THEN SubarrayFrom(joined, Len(joined) - 1)
                                         ELSE <<>>,
                      !.hist.carryEpoch = w.hist.inEpoch,
                      !.hist.inEpoch = e,
                      !.hist.pushed = @ + Len(buf)]
  IN  IF Len(buf) = 0 THEN w1 ELSE enqueueOutboundPcm8k(w1, buf)

\* A resetOutboundAudioPipeline that leaves the queue as it is.
resetOutboundAudioPipeline_KeepQueue(w) ==
  LET w1 == [w EXCEPT !.outboundPcm8kRemainder = <<>>,
                      !.fallbackPcm24kBuffer = <<>>,
                      !.hist.accepted = <<>>,
                      !.hist.emitted = <<>>,
                      !.hist.pushed = 0,
                      !.hist.pads = 0,
                      !.hist.nFrames = 0]
      w2 == stopFfmpegResampler(stopOutboundPlayback(w1))
  IN  [w2 EXCEPT !.ffmpegPcmCarry = <<>>]

\* A resetOutboundAudioPipeline that leaves the partial frame in the framer.
resetOutboundAudioPipeline_KeepRemainder(w) ==
  LET w1 == [w EXCEPT !.outboundMulawQueue = <<>>,
                      !.fallbackPcm24kBuffer = <<>>,
                      !.hist.dropped = @ + Len(w.outboundMulawQueue),
                      !.hist.queueEpoch = <<>>,
                      !.hist.accepted = <<>>,
                      !.hist.emitted = <<>>,
                      !.hist.pushed = 0,
                      !.hist.pads = 0,
                      !.hist.nFrames = 0]
      w2 == stopFfmpegResampler(stopOutboundPlayback(w1))
  IN  [w2 EXCEPT !.ffmpegPcmCarry = <<>>]

\* resetOutboundAudioPipeline()
resetOutboundAudioPipeline(w) ==
  LET w1 == [w EXCEPT !.outboundMulawQueue = <<>>,
                      !.outboundPcm8kRemainder = <<>>,
                      !.fallbackPcm24kBuffer = <<>>,
                      !.hist.dropped = @ + Len(w.outboundMulawQueue),
                      !.hist.queueEpoch = <<>>,
                      !.hist.accepted = <<>>,
                      !.hist.emitted = <<>>,
                      !.hist.pushed = 0,
                      !.hist.pads = 0,
                      !.hist.nFrames = 0]
      w2 == stopFfmpegResampler(stopOutboundPlayback(w1))
  IN  [w2 EXCEPT !.ffmpegPcmCarry = <<>>]

(***************************************************************************)
(* Prompt injector.  generateTtsAudioForText is imported by geminiLive.js  *)
(* from audio.js, which does not hold it; it is taken as the external      *)
(* text-to-speech collaborator of the specification: a text (a sequence of *)
(* words) yields the mu-law bytes of its words, one after the other.       *)
(***************************************************************************)
WordBytes(word) ==
  IF word = "hi" THEN 100 ELSE IF word = "thanks" THEN 230 ELSE IF word = "uh" THEN 0 ELSE 160

WordAudio(word) ==
  Bytes([i \in 1..WordBytes(word) |-> (WordBytes(word) + 3 * i) % 256])

RECURSIVE generateTtsAudioForText(_)
generateTtsAudioForText(text) ==
  IF text = <<>> THEN <<>>
  ELSE WordAudio(Head(text)) \o generateTtsAudioForText(Tail(text))

\* The loop of a playTts that queues the last part of the audio as it is.
RECURSIVE TtsFrames_NoPad(_, _)
TtsFrames_NoPad(mulaw, i) ==
  IF i >= Len(mulaw) THEN <<>>
  ELSE <<Subarray(mulaw, i, i + FRAME_BYTES_MULAW)>>
         \o TtsFrames_NoPad(mulaw, i + FRAME_BYTES_MULAW)

\* The for loop of playTts: one queue entry per 160 bytes, the last one
\* padded with 0x7f.
RECURSIVE TtsFrames(_, _)
TtsFrames(mulaw, i) ==
  IF i >= Len(mulaw) THEN <<>>
  ELSE
    LET frame == Subarray(mulaw, i, i + FRAME_BYTES_MULAW)
        entry == IF Len(frame) = FRAME_BYTES_MULAW THEN <<frame>>
                 ELSE IF Len(frame) > 0
                 THEN <<frame \o BufferAlloc(FRAME_BYTES_MULAW - Len(frame), MULAW_SILENCE)>>
                 ELSE <<>>
    IN  entry \o TtsFrames(mulaw, i + FRAME_BYTES_MULAW)

\* A playTts that puts the prompt in front of the frames that wait.
playTts_Front(w, text) ==
  IF text = <<>> \/ w.streamSid = 0 \/ w.wsReadyState # WS_OPEN THEN w
  ELSE
    LET mulaw == generateTtsAudioForText(text)
    IN  IF Len(mulaw) = 0 THEN w
        ELSE
          LET frames == TtsFrames(mulaw, 0)
          IN  ensureOutboundPlayback(
                [w EXCEPT !.outboundMulawQueue = frames \o @,
                          !.hist.queueEpoch = [k \in 1..Len(frames) |-> w.hist.epoch] \o @,
                          !.hist.lastTts = mulaw])

\* A playTts that also discards the inbound audio that waits for a frame.
playTts_ClearCarry(w, text) ==
  IF text = <<>> \/ w.streamSid = 0 \/ w.wsReadyState # WS_OPEN THEN w
  ELSE
    LET mulaw == generateTtsAudioForText(text)
    IN  IF Len(mulaw) = 0 THEN w
        ELSE
          LET frames == TtsFrames(mulaw, 0)
          IN  ensureOutboundPlayback(
                [w EXCEPT !.outboundMulawQueue = @ \o frames,
                          !.hist.queueEpoch = @ \o [k \in 1..Len(frames) |-> w.hist.epoch],
                          !.hist.lastTts = mulaw,
                          !.geminiFrameCarry = <<>>])

\* playTts(text)
playTts(w, text) ==
  IF text = <<>> \/ w.streamSid = 0 \/ w.wsReadyState # WS_OPEN THEN w
  ELSE
    LET mulaw == generateTtsAudioForText(text)
    IN  IF Len(mulaw) = 0 THEN w
        ELSE
          LET frames == TtsFrames(mulaw, 0)
          IN  ensureOutboundPlayback(
                [w EXCEPT !.outboundMulawQueue = @ \o frames,
                          !.hist.queueEpoch = @ \o [k \in 1..Len(frames) |-> w.hist.epoch],
                          !.hist.lastTts = mulaw])

(***************************************************************************)
(* Session lifecycle.  A connection attempt is [state, waiters]: waiters   *)
(* are the continuations handleInboundPcm chained on the promise, each     *)
(* the PCM chunk it will forward; epoch is the number of cancellations     *)
(* handled before live.connect was called.  A session is [state, received].*)
(***************************************************************************)
\* session.sendRealtimeInput(msg): reaches the backend while the session is
\* open.  On a session that is "failing" the call throws, once, and the
\* message does not reach the backend; every caller catches and goes on.
SessionSend(w, sid, msg) ==
  IF w.sessions[sid].state = "open"
  THEN [w EXCEPT !.sessions[sid].received = Append(@, msg)]
  ELSE IF w.sessions[sid].state = "failing"
  THEN [w EXCEPT !.sessions[sid].state = "open"]
  ELSE w

\* A drainGeminiFrames whose try is around the loop: a send that throws
\* ends the loop, and the frames behind it stay in the carry.
RECURSIVE drainGeminiFrames_StopOnThrow(_)
drainGeminiFrames_StopOnThrow(w) ==
  IF w.geminiSession = 0 THEN w
  ELSE IF Len(w.geminiFrameCarry) < GEMINI_FRAME_BYTES THEN w
  ELSE
    LET frame == Subarray(w.geminiFrameCarry, 0, GEMINI_FRAME_BYTES)
        w1 == [w EXCEPT !.geminiFrameCarry = SubarrayFrom(@, GEMINI_FRAME_BYTES)]
        w2 == SessionSend(w1, w.geminiSession, [kind |-> "audio", data |-> frame])
    IN  IF w.sessions[w.geminiSession].state = "failing" THEN w2
        ELSE drainGeminiFrames_StopOnThrow(w2)

\* drainGeminiFrames(): one 320-byte audio message per iteration.
RECURSIVE drainGeminiFrames(_)
drainGeminiFrames(w) ==
  IF w.geminiSession = 0 THEN w
  ELSE IF Len(w.geminiFrameCarry) < GEMINI_FRAME_BYTES THEN w
  ELSE
    LET frame == Subarray(w.geminiFrameCarry, 0, GEMINI_FRAME_BYTES)
        w1 == [w EXCEPT !.geminiFrameCarry = SubarrayFrom(@, GEMINI_FRAME_BYTES)]
    IN  drainGeminiFrames(SessionSend(w1, w.geminiSession, [kind |-> "audio", data |-> frame]))

\* The body shared by both branches of handleInboundPcm: align, append, drain.
ForwardInbound(w, pcm8k) ==
  LET aligned == IF Len(pcm8k) % 2 # 0 THEN Subarray(pcm8k, 0, Len(pcm8k) - 1) ELSE pcm8k
  IN  IF Len(aligned) = 0 THEN w
      ELSE drainGeminiFrames([w EXCEPT !.geminiFrameCarry = @ \o aligned])

\* History of one ensureGeminiSession call: who called, the session and the
\* attempt the instance held at the call, the attempt whose promise the call
\* got (0: none, it got the session at once), whether the call started that
\* attempt, and the session the caller observed (-1: not settled yet, 0: null).
CallRecord(w, by, attempt, started, session) ==
  [by |-> by, held |-> w.geminiSession, inflight |-> w.geminiConnectPromise,
   attempt |-> attempt, started |-> started, session |-> session]

\* The ensureGeminiSession of a revision that does not look at geminiConnectPromise.
ensureGeminiSession_NoJoin(w, by, waiter) ==
  IF ~w.geminiClient THEN w
  ELSE IF w.geminiSession # 0
  THEN [w EXCEPT !.hist.calls = Append(@, CallRecord(w, by, 0, FALSE, w.geminiSession))]
  ELSE
    LET a == Len(w.connects) + 1
    IN  [w EXCEPT !.connects = Append(@, [state |-> "pending", waiters |-> <<waiter>>,
                                          session |-> 0, epoch |-> w.hist.epoch]),
                  !.geminiConnectPromise = a,
                  !.hist.calls = Append(@, CallRecord(w, by, a, TRUE, -1))]

\* ensureGeminiSession(); by names the caller, waiter is the chunk that the
\* continuation chained on the result forwards (<<>> for start(), which
\* chains none).
ensureGeminiSession(w, by, waiter) ==
  IF ~w.geminiClient THEN w
  ELSE IF w.geminiSession # 0
  THEN [w EXCEPT !.hist.calls = Append(@, CallRecord(w, by, 0, FALSE, w.geminiSession))]
  ELSE IF w.geminiConnectPromise # 0
  THEN [w EXCEPT !.connects[w.geminiConnectPromise].waiters = Append(@, waiter),
                 !.hist.calls = Append(@, CallRecord(w, by, w.geminiConnectPromise,
                                                     FALSE, -1))]
  ELSE
    LET a == Len(w.connects) + 1
    IN  [w EXCEPT !.connects = Append(@, [state |-> "pending", waiters |-> <<waiter>>,
                                          session |-> 0, epoch |-> w.hist.epoch]),
                  !.geminiConnectPromise = a,
                  !.hist.calls = Append(@, CallRecord(w, by, a, TRUE, -1))]

\* start()
start(w) == IF ~w.geminiClient THEN w ELSE ensureGeminiSession(w, "start", <<>>)

\* A handleInboundPcm that does not look at the track tag.
handleInboundPcm_AnyTrack(w, pcm8k, track) ==
  IF w.geminiSession # 0 THEN ForwardInbound(w, pcm8k)
  ELSE IF ~w.geminiClient THEN w
  ELSE ensureGeminiSession(w, "inbound", pcm8k)

\* handleInboundPcm(pcm8k, track); track is "", "inbound" or "outbound".
handleInboundPcm(w, pcm8k, track) ==
  IF ~(track = "" \/ track = "inbound") THEN w
  ELSE IF w.geminiSession # 0 THEN ForwardInbound(w, pcm8k)
  ELSE IF ~w.geminiClient THEN w
  ELSE ensureGeminiSession(w, "inbound", pcm8k)

\* The continuations of one settled attempt run last chained, first run.
RECURSIVE RunWaiters_Reverse(_, _, _)
RunWaiters_Reverse(w, waiters, session) ==
  IF waiters = <<>> THEN w
  ELSE RunWaiters_Reverse(IF session = 0 THEN w
                          ELSE ForwardInbound(w, waiters[Len(waiters)]),
                          SubSeq(waiters, 1, Len(waiters) - 1), session)

\* The continuations of one settled attempt, in the order they were chained.
RECURSIVE RunWaiters(_, _, _)
RunWaiters(w, waiters, session) ==
  IF waiters = <<>> THEN w
  ELSE RunWaiters(IF session = 0 THEN w ELSE ForwardInbound(w, Head(waiters)),
                  Tail(waiters), session)

Observed(calls, a, session) ==
  [i \in 1..Len(calls) |-> IF calls[i].attempt = a THEN [calls[i] EXCEPT !.session = session]
                           ELSE calls[i]]

\* live.connect resolved: .then, .finally, then the callers' continuations.
connectResolved(w, a) ==
  LET sid == Len(w.sessions) + 1
      w1 == [w EXCEPT !.sessions = Append(@, [state |-> "open", received |-> <<>>]),
                      !.connects[a].state = "resolved",
                      !.connects[a].session = sid,
                      !.geminiSession = sid]
      w2 == [drainGeminiFrames(w1) EXCEPT !.geminiConnectPromise = 0,
                                          !.hist.calls = Observed(@, a, sid)]
  IN  RunWaiters(w2, w.connects[a].waiters, sid)

\* A rejection handled without the .finally that clears geminiConnectPromise.
connectRejected_KeepPromise(w, a) ==
  RunWaiters([w EXCEPT !.connects[a].state = "rejected",
                       !.hist.calls = Observed(@, a, 0)],
             w.connects[a].waiters, 0)

\* live.connect rejected: .catch yields null, .finally, then the continuations.
connectRejected(w, a) ==
  RunWaiters([w EXCEPT !.connects[a].state = "rejected",
                       !.geminiConnectPromise = 0,
                       !.hist.calls = Observed(@, a, 0)],
             w.connects[a].waiters, 0)

\* An onclose that only logs.
onclose_Keep(w) == w

\* callbacks.onclose
onclose(w) == [w EXCEPT !.geminiSession = 0]

\* An onmessage that plays the transcript at the end of a turn and keeps it.
onmessage_KeepTranscript(w, message) ==
  IF message.interrupted
  THEN resetOutboundAudioPipeline([w EXCEPT !.currentTurnTranscript = <<>>,
                                            !.hist.epoch = @ + 1,
                                            !.hist.cuts = Append(@, "interrupted"),
                                            !.hist.lastOp = "interrupted"])
  ELSE
    LET w2 == IF message.text # <<>>
              THEN [w EXCEPT !.currentTurnTranscript = @ \o message.text]
              ELSE w
    IN  IF message.turnComplete /\ w2.currentTurnTranscript # <<>>
        THEN playTts(w2, w2.currentTurnTranscript)
        ELSE w2

\* callbacks.onmessage.  A message is [interrupted, data, text, turnComplete];
\* text is the trimmed transcription as a sequence of words.  message.data
\* is not read: the statement that handled it (lines 378-412) is inside a
\* block comment, so the audio of a message changes nothing.
onmessage(w, message) ==
  IF message.interrupted
  THEN resetOutboundAudioPipeline([w EXCEPT !.currentTurnTranscript = <<>>,
                                            !.hist.epoch = @ + 1,
                                            !.hist.cuts = Append(@, "interrupted"),
                                            !.hist.lastOp = "interrupted"])
  ELSE
    LET w2 == IF message.text # <<>>
              THEN [w EXCEPT !.currentTurnTranscript = @ \o message.text]
              ELSE w
    IN  IF message.turnComplete
        THEN [(IF w2.currentTurnTranscript # <<>>
               THEN playTts(w2, w2.currentTurnTranscript) ELSE w2)
              EXCEPT !.currentTurnTranscript = <<>>]
        ELSE w2

\* A stop() that makes both calls on the session inside one try: when the
\* first throws, the second is not made.
stop_OneTry(w, endThrows, closeThrows) ==
  LET w0 == [w EXCEPT !.hist.epoch = @ + 1, !.hist.cuts = Append(@, "stop")]
      w1 == stopFfmpegResampler(flushOutboundPcmRemainderWithSilence(stopOutboundPlayback(w0)))
      w2 == [w1 EXCEPT !.currentTurnTranscript = <<>>,
                       !.geminiFrameCarry = <<>>,
                       !.outboundMulawQueue = <<>>,
                       !.hist.dropped = @ + Len(w1.outboundMulawQueue),
                       !.hist.queueEpoch = <<>>]
      sid == w.geminiSession
  IN  IF sid = 0 THEN w2
      ELSE
        LET w3 == IF endThrows THEN w2
                  ELSE SessionSend(w2, sid, [kind |-> "audioStreamEnd", data |-> <<>>])
            w4 == IF endThrows \/ closeThrows \/ w3.sessions[sid].state # "open" THEN w3
                  ELSE [w3 EXCEPT !.sessions[sid].state = "closing",
                                  !.sessions[sid].received =
                                     Append(@, [kind |-> "close", data |-> <<>>])]
        IN  [w4 EXCEPT !.geminiSession = 0,
                       !.hist.threw = <<endThrows, closeThrows>>]

\* A stop() that flushes last, after it emptied the queue: the padded frame
\* of the flush stays queued and the timer it started sends it.
stop_FlushLast(w, endThrows, closeThrows) ==
  LET w0 == [w EXCEPT !.hist.epoch = @ + 1, !.hist.cuts = Append(@, "stop")]
      w1 == stopFfmpegResampler(stopOutboundPlayback(w0))
      w2 == flushOutboundPcmRemainderWithSilence(
              [w1 EXCEPT !.currentTurnTranscript = <<>>,
                         !.geminiFrameCarry = <<>>,
                         !.outboundMulawQueue = <<>>,
                         !.hist.dropped = @ + Len(w1.outboundMulawQueue),
                         !.hist.queueEpoch = <<>>])
      sid == w.geminiSession
  IN  IF sid = 0 THEN w2
      ELSE
        LET w3 == IF endThrows THEN w2
                  ELSE SessionSend(w2, sid, [kind |-> "audioStreamEnd", data |-> <<>>])
            w4 == IF closeThrows \/ w3.sessions[sid].state # "open" THEN w3
                  ELSE [w3 EXCEPT !.sessions[sid].state = "closing",
                                  !.sessions[sid].received =
                                     Append(@, [kind |-> "close", data |-> <<>>])]
        IN  [w4 EXCEPT !.geminiSession = 0,
                       !.hist.threw = <<endThrows, closeThrows>>]

\* A stop() that does not stop the resampler subprocess.
stop_KeepResampler(w, endThrows, closeThrows) ==
  LET w0 == [w EXCEPT !.hist.epoch = @ + 1, !.hist.cuts = Append(@, "stop")]
      w1 == flushOutboundPcmRemainderWithSilence(stopOutboundPlayback(w0))
      w2 == [w1 EXCEPT !.currentTurnTranscript = <<>>,
                       !.geminiFrameCarry = <<>>,
                       !.outboundMulawQueue = <<>>,
                       !.hist.dropped = @ + Len(w1.outboundMulawQueue),
                       !.hist.queueEpoch = <<>>]
      sid == w.geminiSession
  IN  IF sid = 0 THEN w2
      ELSE
        LET w3 == IF endThrows THEN w2
                  ELSE SessionSend(w2, sid, [kind |-> "audioStreamEnd", data |-> <<>>])
            w4 == IF closeThrows \/ w3.sessions[sid].state # "open" THEN w3
                  ELSE [w3 EXCEPT !.sessions[sid].state = "closing",
                                  !.sessions[sid].received =
                                     Append(@, [kind |-> "close", data |-> <<>>])]
        IN  [w4 EXCEPT !.geminiSession = 0,
                       !.hist.threw = <<endThrows, closeThrows>>]

\* stop(); endThrows and closeThrows tell whether the session's
\* sendRealtimeInput({audioStreamEnd}) and close() throw, each inside a try
\* of its own.  A call that throws does not reach the backend.
stop(w, endThrows, closeThrows) ==
  LET w0 == [w EXCEPT !.hist.epoch = @ + 1, !.hist.cuts = Append(@, "stop")]
      w1 == stopFfmpegResampler(flushOutboundPcmRemainderWithSilence(stopOutboundPlayback(w0)))
      w2 == [w1 EXCEPT !.currentTurnTranscript = <<>>,
                       !.geminiFrameCarry = <<>>,
                       !.outboundMulawQueue = <<>>,
                       !.hist.dropped = @ + Len(w1.outboundMulawQueue),
                       !.hist.queueEpoch = <<>>]
      sid == w.geminiSession
  IN  IF sid = 0 THEN w2
      ELSE
        LET w3 == IF endThrows THEN w2
                  ELSE SessionSend(w2, sid, [kind |-> "audioStreamEnd", data |-> <<>>])
            w4 == IF closeThrows \/ w3.sessions[sid].state # "open" THEN w3
                  ELSE [w3 EXCEPT !.sessions[sid].state = "closing",
                                  !.sessions[sid].received =
                                     Append(@, [kind |-> "close", data |-> <<>>])]
        IN  [w4 EXCEPT !.geminiSession = 0,
                       !.hist.threw = <<endThrows, closeThrows>>]

(***************************************************************************)
(* The earlier translator (src/unnamed/part_000).  Its queue holds the     *)
(* mu-law audio of each backend message as one buffer of any length; the   *)
(* pacer cuts 160-byte frames out of it.  Inbound chunks wait in           *)
(* geminiInPcmChunks for a flush timer.  The operators whose code is the   *)
(* same as in geminiLive.js (ensureOutboundPlayback, stopOutboundPlayback, *)
(* sendMark, ensureGeminiSession, onclose) are shared.                     *)
(***************************************************************************)
\* The while loop of part_000's sendOneOutboundFrame: takes bytes off the
\* head of the queue until a frame is full or the queue is empty.
RECURSIVE TakeParts(_, _, _, _)
TakeParts(queue, epochs, remaining, got) ==
  IF remaining > 0 /\ Len(queue) > 0
  THEN LET head == Head(queue)
           take == Min(Len(head), remaining)
           whole == take = Len(head)
       IN  TakeParts(IF whole THEN Tail(queue)
                     ELSE <<SubarrayFrom(head, take)>> \o Tail(queue),
                     IF whole THEN Tail(epochs) ELSE epochs,
                     remaining - take,
                     [bytes |-> got.bytes \o Subarray(head, 0, take),
                      parts |-> got.parts + 1,
                      made |-> IF got.parts = 0 THEN Head(epochs) ELSE got.made])
  ELSE [queue |-> queue, epochs |-> epochs, got |-> got]

\* part_000's sendOneOutboundFrame
legacySendOneOutboundFrame(w) ==
  IF w.streamSid = 0 \/ w.wsReadyState # WS_OPEN THEN stopOutboundPlayback(w)
  ELSE IF w.geminiSession = 0 THEN stopOutboundPlayback(w)
  ELSE IF Len(w.outboundMulawQueue) = 0 THEN stopOutboundPlayback(w)
  ELSE
    LET r == TakeParts(w.outboundMulawQueue, w.hist.queueEpoch, FRAME_BYTES_MULAW,
                       [bytes |-> <<>>, parts |-> 0, made |-> 0])
        w1 == [w EXCEPT !.outboundMulawQueue = r.queue, !.hist.queueEpoch = r.epochs]
    IN  IF r.got.parts = 0 THEN stopOutboundPlayback(w1)
        ELSE
          LET short == FRAME_BYTES_MULAW - Len(r.got.bytes)
              frame == IF short > 0 THEN r.got.bytes \o BufferAlloc(short, MULAW_SILENCE)
                       ELSE r.got.bytes
              w2 == [w1 EXCEPT !.wsSent =
                       Append(@, [event |-> "media", streamSid |-> w.streamSid,
                                  payload |-> frame, epoch |-> w.hist.epoch,
                                  made |-> r.got.made, pad |-> short])]
          IN  IF w.hist.sendThrows
              THEN \* catch: log and stop the playback
                   stopOutboundPlayback([w1 EXCEPT !.hist.sendThrows = FALSE])
              ELSE IF Len(w2.outboundMulawQueue) = 0
              THEN stopOutboundPlayback(sendMark(w2, w.streamSid))
              ELSE w2

\* part_000's callbacks.onmessage
legacyOnmessage(w, message) ==
  IF message.interrupted
  THEN [w EXCEPT !.outboundMulawQueue = <<>>,
                 !.hist.queueEpoch = <<>>,
                 !.hist.dropped = @ + Len(w.outboundMulawQueue),
                 !.hist.epoch = @ + 1,
                 !.hist.cuts = Append(@, "interrupted"),
                 !.hist.lastOp = "interrupted"]
  ELSE IF Len(message.data) > 0
  THEN ensureOutboundPlayback(
         [w EXCEPT !.outboundMulawQueue =
                      Append(@, pcmToMulaw(resamplePcm16(message.data, 24000, 8000))),
                   !.hist.queueEpoch = Append(@, w.hist.epoch)])
  ELSE w

RECURSIVE BufferConcat(_)
BufferConcat(chunks) ==
  IF chunks = <<>> THEN <<>> ELSE Head(chunks) \o BufferConcat(Tail(chunks))

\* part_000's flushGeminiAudio: the flush interval's callback.
flushGeminiAudio(w) ==
  IF w.geminiSession = 0 THEN w
  ELSE IF Len(w.geminiInPcmChunks) = 0 THEN w
  ELSE
    LET pcm16k == resamplePcm16(BufferConcat(w.geminiInPcmChunks), 8000, 16000)
        w1 == [w EXCEPT !.geminiInPcmChunks = <<>>]
    IN  IF Len(pcm16k) = 0 THEN w1
        ELSE SessionSend(w1, w.geminiSession, [kind |-> "audio", data |-> pcm16k])

\* part_000's start.  start() chains no continuation on the promise it
\* gets (.catch only), so the attempt gains no waiter.
legacyStart(w) ==
  IF ~w.geminiClient THEN w
  ELSE
    LET w1 == ensureGeminiSession(w, "start", <<>>)
        a == w1.geminiConnectPromise
    IN  [(IF w.geminiSession = 0
          THEN [w1 EXCEPT !.connects[a].waiters = SubSeq(@, 1, Len(@) - 1)]
          ELSE w1)
         EXCEPT !.geminiInFlushTimer = TRUE]

\* part_000's handleInboundPcm
legacyHandleInboundPcm(w, pcm8k, track) ==
  IF ~(track = "" \/ track = "inbound") THEN w
  ELSE IF w.geminiSession # 0 THEN [w EXCEPT !.geminiInPcmChunks = Append(@, pcm8k)]
  ELSE IF ~w.geminiClient THEN w
  ELSE ensureGeminiSession(w, "inbound", pcm8k)

\* part_000: live.connect resolved; the continuations of handleInboundPcm
\* push their chunks, whatever their length, in the order they were chained.
legacyConnectResolved(w, a) ==
  LET sid == Len(w.sessions) + 1
  IN  [w EXCEPT !.sessions = Append(@, [state |-> "open", received |-> <<>>]),
                !.connects[a].state = "resolved",
                !.connects[a].session = sid,
                !.geminiSession = sid,
                !.geminiConnectPromise = 0,
                !.hist.calls = Observed(@, a, sid),
                !.geminiInPcmChunks = @ \o w.connects[a].waiters]

\* part_000's stop
legacyStop(w) ==
  LET w1 == stopOutboundPlayback([w EXCEPT !.geminiInFlushTimer = FALSE,
                                           !.hist.epoch = @ + 1,
                                           !.hist.cuts = Append(@, "stop")])
      w2 == [w1 EXCEPT !.geminiInPcmChunks = <<>>,
                       !.outboundMulawQueue = <<>>,
                       !.hist.dropped = @ + Len(w.outboundMulawQueue),
                       !.hist.queueEpoch = <<>>]
      sid == w.geminiSession
  IN  IF sid = 0 THEN w2
      ELSE
        LET w3 == SessionSend(w2, sid, [kind |-> "audioStreamEnd", data |-> <<>>])
            w4 == IF w3.sessions[sid].state # "open" THEN w3
                  ELSE [w3 EXCEPT !.sessions[sid].state = "closing",
                                  !.sessions[sid].received =
                                     Append(@, [kind |-> "close", data |-> <<>>])]
        IN  [w4 EXCEPT !.geminiSession = 0]

(***************************************************************************)
(* audio.js on its own: a buffer handed to pcmToMulaw, mulawToPcm or       *)
(* resamplePcm16 and what they return.  op tells what the record holds:    *)
(* "pcm" or "mulaw" (a buffer given), "encoded" (mulaw is pcmToMulaw of    *)
(* pcm), "decoded" (back is mulawToPcm of mulaw), "bytes" (a buffer and    *)
(* two rates given), "resampled" (out is resamplePcm16 of them).           *)
(***************************************************************************)
AudioInit ==
  [op |-> "none", given |-> "none", pcm |-> <<>>, mulaw |-> <<>>, back |-> <<>>,
   fromRate |-> 0, toRate |-> 0, out |-> <<>>]

(***************************************************************************)
(* The server of src/unnamed/part_001 (lines 42-151 and 425-471).  Its     *)
(* variables connState, gemini and mode are declared at module level; a    *)
(* connection is [state, welcome]: "connected" until its 'start' message,  *)
(* "streaming" until its 'stop' message, then "stopped", and "closed" once *)
(* the socket closed; welcome: the welcome prompt's timeout is pending.    *)
(* A translator is taken for the calls made on it, each with the *)
(* connection whose event made it: [ws, calls].  The translator created on *)
(* the n-th connection is the n-th one.                                    *)
(***************************************************************************)
BridgeInit ==
  [streamSid |-> 0,        \* connState.streamSid (0: null)
   gemini |-> 0,           \* gemini (0: null)
   mode |-> "main-menu",   \* mode
   conns |-> <<>>,         \* connections accepted so far
   translators |-> <<>>,   \* translators created so far
   summaries |-> <<>>,     \* summarizeLatest() promises not settled yet, by connection
   event |-> <<"", 0>>]    \* the event handled last and the connection it came from

\* The stream id the server gives the stream of connection c.
StreamSidOf(c) == 10 + c

\* gemini.<op>(...) in a handler of connection c; a call on null throws.
GeminiCall(b, op, c) ==
  IF b.gemini = 0 THEN b
  ELSE [b EXCEPT !.translators[b.gemini].calls = Append(@, <<op, c>>)]

\* wss.on('connection')
onConnection(b) ==
  LET c == Len(b.conns) + 1
  IN  [b EXCEPT !.conns = Append(@, [state |-> "connected", welcome |-> FALSE]),
                !.translators = Append(@, [ws |-> c, calls |-> <<>>]),
                !.gemini = c,
                !.event = <<"connection", c>>]

\* ws.on('message'), case 'start'
onStreamStart(b, c) ==
  [b EXCEPT !.streamSid = StreamSidOf(c),
            !.conns[c].state = "streaming",
            !.conns[c].welcome = TRUE,
            !.event = <<"start", c>>]

\* The timeout set by case 'start' fires.
onWelcomeTimeout(b, c) ==
  [GeminiCall(b, "playTts", c) EXCEPT !.conns[c].welcome = FALSE,
                                      !.event = <<"welcome", c>>]

\* ws.on('message'), case 'media'
onStreamMedia(b, c) ==
  [(IF b.mode = "translation" THEN GeminiCall(b, "handleInboundPcm", c) ELSE b)
   EXCEPT !.event = <<"media", c>>]

\* ws.on('message'), case 'stop'
onStreamStop(b, c) ==
  [GeminiCall(b, "stop", c) EXCEPT !.streamSid = 0, !.conns[c].state = "stopped",
                                   !.event = <<"stop", c>>]

\* ws.on('close')
onWsClose(b, c) ==
  [GeminiCall(b, "stop", c) EXCEPT !.conns[c].state = "closed", !.event = <<"close", c>>]

\* app.all('/transcribe') for an inbound transcript of connection c's call
\* that asks to begin or end the translation or to summarize.
onTranscribe(b, c, ask) ==
  LET b1 == [b EXCEPT !.event = <<"transcribe", c>>]
  IN  IF ask = "begin" /\ b.mode # "translation"
      THEN IF b.gemini = 0 THEN b1   \* gemini.start throws, caught at line 467
           ELSE GeminiCall([GeminiCall(b1, "start", c) EXCEPT !.mode = "translation"],
                           "playTts", c)
      ELSE IF ask = "end" /\ b.mode = "translation"
      THEN IF b.gemini = 0 THEN b1
           ELSE GeminiCall([GeminiCall(b1, "stop", c) EXCEPT !.mode = "main-menu"],
                           "playTts", c)
      ELSE IF ask = "summarize" /\ b.mode # "summary"
      THEN IF b.gemini = 0 THEN [b1 EXCEPT !.mode = "summary"]
           ELSE [GeminiCall([b1 EXCEPT !.mode = "summary"], "playTts", c)
                 EXCEPT !.summaries = Append(@, c)]
      ELSE b1

\* How a summarizeLatest() promise settles: resolved with a summary,
\* resolved with the summary '' (no text, or a blank one), or rejected.
SummaryOutcomes == {"summary", "empty", "rejected"}

\* The i-th pending summarizeLatest() promise settles: its .then plays the
\* summary if there is one (line 458), its .catch only logs.
onSummary(b, i, outcome) ==
  LET c == b.summaries[i]
      b1 == [b EXCEPT !.summaries = SubSeq(@, 1, i - 1) \o SubSeq(@, i + 1, Len(@)),
                      !.event = <<"summary", c>>]
  IN  IF outcome = "summary" THEN GeminiCall(b1, "playTts", c) ELSE b1

(***************************************************************************)
(* Bounds of the model and the inputs drawn within them.  hist.left holds  *)
(* what is left of each budget; a specification sets it in its Init.       *)
(***************************************************************************)
SessionCalls == 4    \* SpecSession: start(), stop() and handleInboundPcm() calls
SessionEvents == 2   \* SpecSession: failed connects and backend closes
PacerCalls == 2      \* SpecPacer: playTts() and stop() calls
PacerEvents == 1     \* SpecPacer: backend messages
FramerCalls == 3     \* SpecFramer: pushes, flushes and stop() calls
FramerEvents == 1    \* SpecFramer: interruption messages
AudioCalls == 1      \* SpecAudio: playTts() and stop() calls
AudioEvents == 1     \* SpecAudio: interruption messages
AudioChunks == 2     \* SpecAudio: startFfmpegResampler() calls and subprocess outputs
AudioFaults == 1     \* SpecAudio: subprocess errors and exits of its own
TeardownCalls == 3   \* SpecTeardown: start(), stop() and handleInboundPcm() calls
TeardownFaults == 1  \* SpecTeardown: stop() calls during which the session throws
FallbackChunks == 3  \* SpecFallback: startFfmpegResampler() calls
FallbackFaults == 2  \* SpecFallback: subprocess errors and exits of its own
FallbackEvents == 2  \* SpecFallback: interruption messages
TimerCalls == 2      \* SpecTimer: pushes, playTts() and stop() calls
BrokenCalls == 2     \* SpecBroken: pushes and playTts() calls
BrokenFaults == 1    \* SpecBroken: times the transport breaks
MalformedLen == 3    \* SpecMalformed: buffers in the queue the pacer is given
MalformedCalls == 1  \* SpecMalformed: playTts() calls
PromptCalls == 4     \* SpecPrompt: start(), stop(), handleInboundPcm() and playTts() calls
BridgeCalls == 2     \* SpecBridge: connections the server accepts
BridgeEvents == 4    \* SpecBridge: stream messages, socket closes and transcripts
CodecLen == 2        \* SpecCodec: samples, or mu-law bytes, in the buffer given
ResampleLen == 13    \* SpecResample: bytes in the buffer given, at most
FairCalls == 2       \* SpecFair: pushes, playTts() and stop() calls
FairEvents == 1      \* SpecFair: interruption messages
PipeBytes == 325      \* SpecPipe: bytes the subprocess has written to its stdout
CancelCalls == 2     \* SpecCancel: playTts() and stop() calls
CancelEvents == 1    \* SpecCancel: interruption messages
CancelChunks == 2    \* SpecCancel: startFfmpegResampler() calls
StaleCalls == 2      \* SpecStale: chunks pushed into the framer
StaleEvents == 1     \* SpecStale: interruption messages
AlignedBytes == 643  \* SpecAligned: bytes the subprocess has written to its stdout
InboundCalls == 3    \* SpecInbound: handleInboundPcm() and stop() calls
InboundFaults == 1   \* SpecInbound: times sendRealtimeInput throws
DiscardCalls == 2    \* SpecDiscard: pushes and stop() calls
TurnEvents == 3      \* SpecTurn: backend messages
LegacyCalls == 1     \* SpecLegacy: start(), stop() and handleInboundPcm() calls
LegacyEvents == 2    \* SpecLegacy: backend messages and closes

Budget(call, event, audio, proc) ==
  [call |-> call, event |-> event, audio |-> audio, proc |-> proc]

\* Inbound PCM: a whole frame, a frame and a dangling byte, a part of a
\* frame, and a frame of the bridge's own outbound track.
InboundInputs == {<<320, "inbound">>, <<321, "">>, <<100, "inbound">>, <<320, "outbound">>}
InboundBurst == Bytes([i \in 1..741 |-> (9 + 5 * i) % 256])
InboundChunk(len, k) == Bytes([i \in 1..len |-> (k * 16 + i) % 256])

\* Prompt texts; "uh" is a word the synthesizer renders as no audio.
PromptTexts == {<<>>, <<"hi">>, <<"thanks">>, <<"uh">>}

\* Chunks of 8 kHz PCM pushed into the framer: a whole frame, two odd
\* lengths that add up to a frame, and two even lengths that add up to two.
PushLens == {320, 161, 159, 100, 540}
PcmChunk(len, k) == Bytes([i \in 1..len |-> (k * 32 + 7 * i) % 256])

\* Backend audio, 24 kHz PCM: 161 samples at 8 kHz (a frame and a sample),
\* and 250 ms of it.
AudioShort == Bytes([i \in 1..966 |-> (5 * i) % 256])
AudioLong == Bytes([i \in 1..FALLBACK_MIN_CHUNK_BYTES_24K |-> (32 + 3 * i) % 256])
AudioMessages ==
  {[interrupted |-> FALSE, data |-> pcm24k, text |-> <<>>, turnComplete |-> FALSE] :
     pcm24k \in {AudioShort, AudioLong}}

\* Sizes of the chunks the stdout pipe delivers: all it holds, or 161 bytes.
PipeReads(pending) == {Len(pending), Min(161, Len(pending))}

\* Backend messages without audio.
NoData == <<>>
TextMessages ==
  {[interrupted |-> FALSE, data |-> NoData, text |-> <<"hi">>, turnComplete |-> FALSE],
   [interrupted |-> FALSE, data |-> NoData, text |-> <<"thanks">>, turnComplete |-> TRUE],
   [interrupted |-> FALSE, data |-> NoData, text |-> <<>>, turnComplete |-> TRUE]}
InterruptedMessage ==
  [interrupted |-> TRUE, data |-> NoData, text |-> <<"hi">>, turnComplete |-> TRUE]

\* Buffers for the codec: n 16-bit samples in a row from x on, wrapping from
\* 32767 to -32768, and n mu-law bytes in a row from c on, wrapping at 255.
SampleRun(x, n) ==
  Bytes([i \in 1..(2 * n) |->
           Int16LEBytes(((x + 32768 + ((i - 1) \div 2)) % 65536) - 32768)[((i - 1) % 2) + 1]])
CodeRun(c, n) == Bytes([i \in 1..n |-> (c + i - 1) % 256])

\* What a subprocess wrote to its stdout, and the sizes of the chunks the
\* pipe delivers it in.
PipeOutput(len) == Bytes([i \in 1..len |-> (11 + 3 * i) % 256])
PipeSizes == {1, 2, 3, 161, FRAME_BYTES_PCM16}

\* Buffers for the resampler, of any length from 0 on, and its rates.
ResampleSeeds == {0, 97, 201}
ResampleBytes(len, k) == Bytes([i \in 1..len |-> (k + 53 * i) % 256])
Rates == {8000, 16000, 24000}

\* Queues as no producer of this revision builds them: buffers of the
\* frame size and of other sizes, the k-th one telling k in its bytes.
GivenSizes == {FRAME_BYTES_MULAW, 100, 161}
GivenFrame(len, k) == Bytes([i \in 1..len |-> (k * 40 + i) % 256])
GivenQueues ==
  UNION {{[k \in 1..n |-> GivenFrame(sizes[k], k)] : sizes \in [1..n -> GivenSizes]} :
           n \in 1..MalformedLen}

Begin(w, op) ==
  [w EXCEPT !.hist.prevOp = IF op = "flush" THEN w.hist.lastOp ELSE "",
            !.hist.lastOp = op, !.hist.lastEmit = 0,
            !.hist.lastTrack = "none", !.hist.threw = <<FALSE, FALSE>>,
            !.hist.lastTts = <<>>]
Use(w, what) == [w EXCEPT !.hist.left[what] = @ - 1]

(***************************************************************************)
(* Actions: the exported functions, the callbacks, the timer.              *)
(***************************************************************************)
Start ==
  /\ hist.left.call > 0
  /\ Becomes(start(Use(Begin(World, "start"), "call")))

HandleInboundPcm ==
  /\ hist.left.call > 0
  /\ \E in \in InboundInputs :
       Becomes(handleInboundPcm([Use(Begin(World, "handleInboundPcm"), "call")
                                 EXCEPT !.hist.lastTrack = in[2]],
                                InboundChunk(in[1], hist.left.call), in[2]))

\* handleInboundPcm with a chunk that holds more than two frames.
HandleInboundBurst ==
  /\ hist.left.call > 0
  /\ Becomes(handleInboundPcm([Use(Begin(World, "handleInboundPcm"), "call")
                               EXCEPT !.hist.lastTrack = "inbound"],
                              InboundBurst, "inbound"))

\* The session the instance holds breaks: its next sendRealtimeInput throws.
SessionBreaks ==
  /\ hist.left.proc > 0
  /\ geminiSession # 0
  /\ sessions[geminiSession].state = "open"
  /\ Becomes([Use(Begin(World, "sessionBreaks"), "proc")
              EXCEPT !.sessions[geminiSession].state = "failing"])

PlayTts ==
  /\ hist.left.call > 0
  /\ \E text \in PromptTexts :
       Becomes(playTts(Use(Begin(World, "playTts"), "call"), text))

Stop ==
  /\ hist.left.call > 0
  /\ Becomes(stop(Use(Begin(World, "stop"), "call"), FALSE, FALSE))

\* stop() on a session whose sendRealtimeInput, close, or both throw.
StopFaulty ==
  /\ hist.left.call > 0
  /\ hist.left.proc > 0
  /\ geminiSession # 0
  /\ \E endThrows, closeThrows \in BOOLEAN :
       /\ endThrows \/ closeThrows
       /\ Becomes(stop(Use(Use(Begin(World, "stop"), "call"), "proc"),
                       endThrows, closeThrows))

\* The pacing interval fires.
Tick ==
  /\ outboundPlaybackTimer
  /\ Becomes(sendOneOutboundFrame(Begin(World, "tick")))

ConnectResolve ==
  /\ geminiConnectPromise # 0
  /\ Becomes(connectResolved(Begin(World, "connectResolved"), geminiConnectPromise))

ConnectReject ==
  /\ geminiConnectPromise # 0
  /\ hist.left.event > 0
  /\ Becomes(connectRejected(Use(Begin(World, "connectRejected"), "event"),
                             geminiConnectPromise))

\* The backend closes a session and the onclose callback runs.
BackendClose ==
  /\ hist.left.event > 0
  /\ \E sid \in 1..Len(sessions) :
       /\ sessions[sid].state = "open"
       /\ Becomes(onclose([Use(Begin(World, "onclose"), "event")
                           EXCEPT !.sessions[sid].state = "closed"]))

\* The close stop() asked for completes and the onclose callback runs.
ClosedByStop ==
  \E sid \in 1..Len(sessions) :
    /\ sessions[sid].state = "closing"
    /\ Becomes(onclose([Begin(World, "onclose") EXCEPT !.sessions[sid].state = "closed"]))

\* A message of a session that is not closed yet, as this revision handles it.
OnMessage ==
  /\ hist.left.event > 0
  /\ \E sid \in 1..Len(sessions) : sessions[sid].state # "closed"
  /\ \E m \in TextMessages \cup {InterruptedMessage} :
       Becomes(onmessage(Use(Begin(World, "onmessage"), "event"), m))

\* The interruption message alone.
Interrupted ==
  /\ hist.left.event > 0
  /\ Becomes(onmessage(Use(Begin(World, "onmessage"), "event"), InterruptedMessage))

\* enqueueOutboundPcm8k() called on its own with one chunk of 8 kHz PCM, as
\* the stdout listener calls it with resampled audio.  In geminiLive.js as
\* it stands the only call that is reached is the one of the flush.
Push ==
  /\ hist.left.call > 0
  /\ \E len \in PushLens :
       Becomes(enqueueOutboundPcm8k(
                 [Use(Begin(World, "push"), "call")
                  EXCEPT !.hist.inEpoch = hist.epoch, !.hist.pushed = @ + len],
                 PcmChunk(len, hist.left.call)))

Flush ==
  /\ hist.left.call > 0
  /\ Becomes(flushOutboundPcmRemainderWithSilence(Use(Begin(World, "flush"), "call")))

\* A message that carries audio (and nothing else): callbacks.onmessage does
\* not read message.data.
OnAudioMessage ==
  /\ hist.left.event > 0
  /\ \E sid \in 1..Len(sessions) : sessions[sid].state # "closed"
  /\ \E m \in AudioMessages :
       Becomes(onmessage(Use(Begin(World, "onmessage"), "event"), m))

\* startFfmpegResampler() called; spawnOk = FALSE is spawn() throwing.  The
\* function has no caller left in geminiLive.js (the call of line 391 is
\* inside the block comment), so it is called here on its own, as Push
\* calls the framer.
StartFfmpegResampler ==
  /\ hist.left.audio > 0
  /\ \E spawnOk \in BOOLEAN :
       Becomes(startFfmpegResampler(Use(Begin(World, "startFfmpegResampler"), "audio"),
                                    spawnOk))

\* A running subprocess writes resampled audio to its stdout pipe.  In
\* geminiLive.js as it stands nothing writes to its stdin (the write of
\* line 395 is inside the block comment), so this is a step of the
\* subprocess as startFfmpegResampler sets it up, not of the program.
FfmpegWrites ==
  /\ hist.left.audio > 0
  /\ \E p \in 1..Len(procs) :
       /\ procs[p].alive
       /\ procs[p].pending = <<>>
       /\ Becomes([Use(Begin(World, "ffmpeg"), "audio") EXCEPT
                     !.procs[p].pending = PipeOutput(FRAME_BYTES_PCM16 + 2),
                     !.procs[p].pendingEpoch = hist.epoch])

\* The stdout pipe of a subprocess, running or not, delivers a chunk of what
\* it holds to the 'data' listener registered on it.
FfmpegStdoutData ==
  \E p \in 1..Len(procs) :
    /\ procs[p].pending # <<>>
    /\ ~procs[p].closed
    /\ \E k \in PipeReads(procs[p].pending) :
         Becomes(onFfmpegStdoutData(
                   [Begin(World, "stdout") EXCEPT
                      !.procs[p].pending = SubarrayFrom(@, k),
                      !.hist.inEpoch = procs[p].pendingEpoch],
                   Subarray(procs[p].pending, 0, k)))

\* The same, the pipe cutting what it holds into chunks of any of PipeSizes.
FfmpegStdoutChunk ==
  \E p \in 1..Len(procs) :
    /\ ~procs[p].closed
    /\ \E k \in PipeSizes :
         /\ k <= Len(procs[p].pending)
         /\ Becomes(onFfmpegStdoutData(
                      [Begin(World, "stdout") EXCEPT
                         !.procs[p].pending = SubarrayFrom(@, k),
                         !.hist.inEpoch = procs[p].pendingEpoch],
                      Subarray(procs[p].pending, 0, k)))

\* A running subprocess fails: the 'error' event (the binary is missing),
\* or it exits by itself with code 0 or another.
FfmpegFault ==
  /\ hist.left.proc > 0
  /\ \E p \in 1..Len(procs) :
       /\ procs[p].alive
       /\ \/ /\ ~procs[p].errored
             /\ procs[p].pending = <<>>
             /\ Becomes(onFfmpegError(
                          [Use(Begin(World, "error"), "proc") EXCEPT
                             !.procs[p].errored = TRUE,
                             !.procs[p].alive = FALSE,
                             !.procs[p].stdinOpen = FALSE,
                             !.procs[p].closed = TRUE]))
          \/ \E code \in {0, 1} :
               Becomes([Use(Begin(World, "exit"), "proc") EXCEPT
                          !.procs[p].alive = FALSE,
                          !.procs[p].stdinOpen = FALSE,
                          !.procs[p].code = code])

\* The 'close' event of a subprocess that ended, once its stdout is drained.
FfmpegClose ==
  \E p \in 1..Len(procs) :
    /\ ~procs[p].alive
    /\ ~procs[p].closed
    /\ procs[p].pending = <<>>
    /\ Becomes(onFfmpegClose([Begin(World, "close") EXCEPT !.procs[p].closed = TRUE],
                             procs[p].code))

\* part_000: the exported functions, the callbacks and the two timers.
LegacyStart ==
  /\ hist.left.call > 0
  /\ Becomes(legacyStart(Use(Begin(World, "start"), "call")))

LegacyHandleInboundPcm ==
  /\ hist.left.call > 0
  /\ \E in \in InboundInputs \cup {<<0, "inbound">>} :
       Becomes(legacyHandleInboundPcm([Use(Begin(World, "handleInboundPcm"), "call")
                                       EXCEPT !.hist.lastTrack = in[2]],
                                      InboundChunk(in[1], hist.left.call), in[2]))

LegacyStop ==
  /\ hist.left.call > 0
  /\ Becomes(legacyStop(Use(Begin(World, "stop"), "call")))

LegacyTick ==
  /\ outboundPlaybackTimer
  /\ Becomes(legacySendOneOutboundFrame(Begin(World, "tick")))

LegacyFlushTick ==
  /\ geminiInFlushTimer
  /\ geminiInPcmChunks # <<>>
  /\ Becomes(flushGeminiAudio(Begin(World, "flushGeminiAudio")))

LegacyConnectResolve ==
  /\ geminiConnectPromise # 0
  /\ Becomes(legacyConnectResolved(Begin(World, "connectResolved"), geminiConnectPromise))

LegacyOnMessage ==
  /\ hist.left.event > 0
  /\ \E sid \in 1..Len(sessions) : sessions[sid].state # "closed"
  /\ \E m \in {mm \in AudioMessages : mm.data = AudioShort} \cup {InterruptedMessage} :
       Becomes(legacyOnmessage(Use(Begin(World, "onmessage"), "event"), m))

\* audio.js: pcmToMulaw on the buffer given.
PcmToMulaw ==
  /\ audioLib.op = "pcm"
  /\ Becomes([Begin(World, "pcmToMulaw") EXCEPT !.audioLib.mulaw = pcmToMulaw(audioLib.pcm),
                                                  !.audioLib.op = "encoded"])

\* audio.js: mulawToPcm on the buffer given, or on what pcmToMulaw returned.
MulawToPcm ==
  /\ audioLib.op \in {"mulaw", "encoded"}
  /\ Becomes([Begin(World, "mulawToPcm") EXCEPT !.audioLib.back = mulawToPcm(audioLib.mulaw),
                                                  !.audioLib.op = "decoded"])

\* audio.js: resamplePcm16 on the buffer and the rates given.
ResamplePcm16 ==
  /\ audioLib.op = "bytes"
  /\ Becomes([Begin(World, "resamplePcm16")
              EXCEPT !.audioLib.out = resamplePcm16(audioLib.pcm, audioLib.fromRate, audioLib.toRate),
                     !.audioLib.op = "resampled"])

\* The server of part_001: a call connects.
Connection ==
  /\ hist.left.call > 0
  /\ Becomes([Use(Begin(World, "connection"), "call") EXCEPT !.bridge = onConnection(@)])

StreamStart ==
  /\ hist.left.event > 0
  /\ \E c \in 1..Len(bridge.conns) :
       /\ bridge.conns[c].state = "connected"
       /\ Becomes([Use(Begin(World, "streamStart"), "event")
                   EXCEPT !.bridge = onStreamStart(@, c)])

WelcomeTimeout ==
  \E c \in 1..Len(bridge.conns) :
    /\ bridge.conns[c].welcome
    /\ Becomes([Begin(World, "welcome") EXCEPT !.bridge = onWelcomeTimeout(@, c)])

StreamMedia ==
  /\ hist.left.event > 0
  /\ \E c \in 1..Len(bridge.conns) :
       /\ bridge.conns[c].state = "streaming"
       /\ Becomes([Use(Begin(World, "streamMedia"), "event")
                   EXCEPT !.bridge = onStreamMedia(@, c)])

StreamStop ==
  /\ hist.left.event > 0
  /\ \E c \in 1..Len(bridge.conns) :
       /\ bridge.conns[c].state = "streaming"
       /\ Becomes([Use(Begin(World, "streamStop"), "event")
                   EXCEPT !.bridge = onStreamStop(@, c)])

WsClose ==
  /\ hist.left.event > 0
  /\ \E c \in 1..Len(bridge.conns) :
       /\ bridge.conns[c].state # "closed"
       /\ Becomes([Use(Begin(World, "wsClose"), "event")
                   EXCEPT !.bridge = onWsClose(@, c)])

\* The transcription callback for something the caller of connection c said.
Transcribe ==
  /\ hist.left.event > 0
  /\ \E c \in 1..Len(bridge.conns), ask \in {"begin", "end", "summarize"} :
       /\ bridge.conns[c].state = "streaming"
       /\ Becomes([Use(Begin(World, "transcribe"), "event")
                   EXCEPT !.bridge = onTranscribe(@, c, ask)])

\* A summarizeLatest() promise settles; the pending ones settle in any order.
SummaryReady ==
  \E i \in 1..Len(bridge.summaries), outcome \in SummaryOutcomes :
    Becomes([Begin(World, "summary") EXCEPT !.bridge = onSummary(@, i, outcome)])

\* The transport breaks in a way readyState does not show: its next send throws.
TransportBreaks ==
  /\ hist.left.proc > 0
  /\ ~hist.sendThrows
  /\ Becomes([Use(Begin(World, "transportBreaks"), "proc") EXCEPT !.hist.sendThrows = TRUE])

\* The transport: the stream id goes (the stream stopped), or the socket closes.
TransportChange ==
  \E gone \in BOOLEAN :
    /\ IF gone THEN streamSid # 0 ELSE wsReadyState = WS_OPEN
    /\ Becomes([Begin(World, "transport")
                EXCEPT !.streamSid = IF gone THEN 0 ELSE @,
                       !.wsReadyState = IF gone THEN @ ELSE 3])

(***************************************************************************)
(* Initial states.                                                         *)
(***************************************************************************)
\* A translator just created for a call whose stream has started.
Created(client, budget) ==
  [geminiClient |-> client, geminiSession |-> 0, geminiConnectPromise |-> 0,
   geminiFrameCarry |-> <<>>, geminiInPcmChunks |-> <<>>, geminiInFlushTimer |-> FALSE,
   outboundMulawQueue |-> <<>>,
   outboundPlaybackTimer |-> FALSE, ffmpegResampler |-> 0,
   ffmpegUnavailable |-> FALSE, ffmpegPcmCarry |-> <<>>,
   outboundPcm8kRemainder |-> <<>>, fallbackPcm24kBuffer |-> <<>>,
   currentTurnTranscript |-> <<>>, wsReadyState |-> WS_OPEN, streamSid |-> 1,
   wsSent |-> <<>>, procs |-> <<>>, connects |-> <<>>, sessions |-> <<>>,
   bridge |-> BridgeInit,
   audioLib |-> AudioInit,
   hist |-> [HistInit EXCEPT !.left = budget]]

\* The same translator after start() and a connect that resolved.
Connected(budget) ==
  connectResolved(start([Created(TRUE, budget) EXCEPT !.hist.left.call = @ + 1]), 1)

IsWorld(w) ==
  /\ geminiClient = w.geminiClient
  /\ geminiSession = w.geminiSession
  /\ geminiConnectPromise = w.geminiConnectPromise
  /\ geminiFrameCarry = w.geminiFrameCarry
  /\ geminiInPcmChunks = w.geminiInPcmChunks
  /\ geminiInFlushTimer = w.geminiInFlushTimer
  /\ outboundMulawQueue = w.outboundMulawQueue
  /\ outboundPlaybackTimer = w.outboundPlaybackTimer
  /\ ffmpegResampler = w.ffmpegResampler
  /\ ffmpegUnavailable = w.ffmpegUnavailable
  /\ ffmpegPcmCarry = w.ffmpegPcmCarry
  /\ outboundPcm8kRemainder = w.outboundPcm8kRemainder
  /\ fallbackPcm24kBuffer = w.fallbackPcm24kBuffer
  /\ currentTurnTranscript = w.currentTurnTranscript
  /\ wsReadyState = w.wsReadyState
  /\ streamSid = w.streamSid
  /\ wsSent = w.wsSent
  /\ procs = w.procs
  /\ connects = w.connects
  /\ sessions = w.sessions
  /\ bridge = w.bridge
  /\ audioLib = w.audioLib
  /\ hist = w.hist

(***************************************************************************)
(* SpecSession: connection, inbound audio and teardown.                    *)
(***************************************************************************)
InitSession ==
  \E client \in BOOLEAN :
    IsWorld(Created(client, Budget(SessionCalls, SessionEvents, 0, 0)))

NextSession ==
  \/ Start
  \/ HandleInboundPcm
  \/ Stop
  \/ ConnectResolve
  \/ ConnectReject
  \/ BackendClose
  \/ ClosedByStop

SpecSession == InitSession /\ [][NextSession]_vars

(***************************************************************************)
(* SpecTeardown: stop() on a connected translator, the session's calls     *)
(* throwing or not, and what follows it.                                   *)
(***************************************************************************)
InitTeardown ==
  IsWorld(Connected(Budget(TeardownCalls, 0, 0, TeardownFaults)))

NextTeardown ==
  \/ Start
  \/ HandleInboundPcm
  \/ Stop
  \/ StopFaulty
  \/ ConnectResolve
  \/ ClosedByStop

SpecTeardown == InitTeardown /\ [][NextTeardown]_vars

(***************************************************************************)
(* SpecPacer: prompts, backend messages and the pacing timer of a          *)
(* connected translator.                                                   *)
(***************************************************************************)
InitPacer == IsWorld(Connected(Budget(PacerCalls, PacerEvents, 0, 0)))

NextPacer ==
  \/ PlayTts
  \/ Stop
  \/ Tick
  \/ OnMessage
  \/ TransportChange

SpecPacer == InitPacer /\ [][NextPacer]_vars

(***************************************************************************)
(* SpecFramer: the outbound framer driven chunk by chunk.                   *)
(***************************************************************************)
InitFramer == IsWorld(Connected(Budget(FramerCalls, FramerEvents, 0, 0)))

NextFramer ==
  \/ Push
  \/ Flush
  \/ Interrupted
  \/ Stop

SpecFramer == InitFramer /\ [][NextFramer]_vars

(***************************************************************************)
(* SpecAudio: the resampler subprocess, its stdout listener, the framer    *)
(* and the pacer, with prompts, interruptions and stop().  The subprocess  *)
(* is started by startFfmpegResampler called on its own; what onmessage    *)
(* does with a message that carries audio is in SpecTurn.                  *)
(***************************************************************************)
InitAudio ==
  IsWorld(Connected(Budget(AudioCalls, AudioEvents, AudioChunks, AudioFaults)))

NextAudio ==
  \/ StartFfmpegResampler
  \/ Interrupted
  \/ PlayTts
  \/ Stop
  \/ Tick
  \/ FfmpegWrites
  \/ FfmpegStdoutData
  \/ FfmpegFault
  \/ FfmpegClose

SpecAudio == InitAudio /\ [][NextAudio]_vars

(***************************************************************************)
(* SpecFallback: the resampler subprocess started and failing again and    *)
(* again, with interruptions in between.  What the subprocesses write to   *)
(* stdout is left to SpecAudio.                                            *)
(***************************************************************************)
InitFallback ==
  IsWorld(Connected(Budget(0, FallbackEvents, FallbackChunks, FallbackFaults)))

NextFallback ==
  \/ StartFfmpegResampler
  \/ Interrupted
  \/ FfmpegFault
  \/ FfmpegClose

SpecFallback == InitFallback /\ [][NextFallback]_vars

(***************************************************************************)
(* SpecTimer: the pacing timer under its producers (the framer, playTts,   *)
(* the flush within stop()) and stop().                                    *)
(***************************************************************************)
InitTimer == IsWorld(Connected(Budget(TimerCalls, 0, 0, 0)))

NextTimer ==
  \/ Push
  \/ PlayTts
  \/ Stop
  \/ Tick

SpecTimer == InitTimer /\ [][NextTimer]_vars

(***************************************************************************)
(* SpecBroken: the pacer on a transport whose send throws.                 *)
(***************************************************************************)
InitBroken == IsWorld(Connected(Budget(BrokenCalls, 0, 0, BrokenFaults)))

NextBroken ==
  \/ Push
  \/ PlayTts
  \/ Tick
  \/ TransportBreaks

SpecBroken == InitBroken /\ [][NextBroken]_vars

(***************************************************************************)
(* SpecMalformed: the pacer's callback handed a queue that holds buffers   *)
(* of a wrong size (sendOneOutboundFrame, lines 281-284, guards against    *)
(* them), the timer running as after an enqueue.                           *)
(***************************************************************************)
InitMalformed ==
  \E queue \in GivenQueues :
    IsWorld(ensureOutboundPlayback(
              [Connected(Budget(MalformedCalls, 0, 0, 0)) EXCEPT
                 !.outboundMulawQueue = queue,
                 !.hist.queueEpoch = [k \in 1..Len(queue) |-> 0]]))

NextMalformed ==
  \/ Tick
  \/ PlayTts

SpecMalformed == InitMalformed /\ [][NextMalformed]_vars

(***************************************************************************)
(* SpecPrompt: prompts played at any point of the session's life, from a   *)
(* translator just created on.                                             *)
(***************************************************************************)
InitPrompt == IsWorld(Created(TRUE, Budget(PromptCalls, 0, 0, 0)))

NextPrompt ==
  \/ Start
  \/ HandleInboundPcm
  \/ PlayTts
  \/ Stop
  \/ ConnectResolve
  \/ ClosedByStop

SpecPrompt == InitPrompt /\ [][NextPrompt]_vars

(***************************************************************************)
(* SpecBridge: the server of part_001 (lines 42-151, 425-471) with calls   *)
(* that connect, stream, ask for modes and end, in any interleaving.       *)
(***************************************************************************)
InitBridge == IsWorld(Created(TRUE, Budget(BridgeCalls, BridgeEvents, 0, 0)))

NextBridge ==
  \/ Connection
  \/ StreamStart
  \/ WelcomeTimeout
  \/ StreamMedia
  \/ StreamStop
  \/ WsClose
  \/ Transcribe
  \/ SummaryReady

SpecBridge == InitBridge /\ [][NextBridge]_vars

(***************************************************************************)
(* SpecAligned: the framer under the caller that feeds it resampled audio, *)
(* the stdout listener, with two frames and three bytes of subprocess      *)
(* output reaching the listener in chunks of any size.                     *)
(***************************************************************************)
InitAligned ==
  IsWorld([Connected(Budget(0, 0, 0, 0)) EXCEPT
             !.ffmpegResampler = 1,
             !.procs = <<[NewProc EXCEPT !.pending = PipeOutput(AlignedBytes)]>>])

NextAligned == FfmpegStdoutChunk

SpecAligned == InitAligned /\ [][NextAligned]_vars

(***************************************************************************)
(* SpecCodec: the mu-law codec of audio.js on every 16-bit sample and      *)
(* every code.                                                             *)
(***************************************************************************)
InitCodec ==
  \/ \E x \in -32768..32767 :
       IsWorld([Created(TRUE, Budget(0, 0, 0, 0)) EXCEPT
                  !.audioLib = [AudioInit EXCEPT !.op = "pcm", !.given = "pcm",
                                              !.pcm = SampleRun(x, CodecLen)]])
  \/ \E c \in 0..255 :
       IsWorld([Created(TRUE, Budget(0, 0, 0, 0)) EXCEPT
                  !.audioLib = [AudioInit EXCEPT !.op = "mulaw", !.given = "mulaw",
                                              !.mulaw = CodeRun(c, CodecLen)]])

NextCodec ==
  \/ PcmToMulaw
  \/ MulawToPcm

SpecCodec == InitCodec /\ [][NextCodec]_vars

(***************************************************************************)
(* SpecResample: resamplePcm16 of audio.js on buffers of every length up   *)
(* to ResampleLen and every pair of rates.                                 *)
(***************************************************************************)
InitResample ==
  \E len \in 0..ResampleLen, k \in ResampleSeeds, from \in Rates, to \in Rates :
    IsWorld([Created(TRUE, Budget(0, 0, 0, 0)) EXCEPT
               !.audioLib = [AudioInit EXCEPT !.op = "bytes", !.given = "bytes",
                                           !.pcm = ResampleBytes(len, k),
                                           !.fromRate = from, !.toRate = to]])

NextResample == ResamplePcm16

SpecResample == InitResample /\ [][NextResample]_vars

(***************************************************************************)
(* SpecPipe: the stdout listener of a running resampler subprocess, whose  *)
(* output reaches it in chunks of any size, and the pacer behind it.       *)
(***************************************************************************)
InitPipe ==
  \E len \in (PipeBytes - 1)..PipeBytes :
    IsWorld([Connected(Budget(0, 0, 0, 0)) EXCEPT
               !.ffmpegResampler = 1,
               !.procs = <<[NewProc EXCEPT !.pending = PipeOutput(len)]>>])

NextPipe ==
  \/ FfmpegStdoutChunk
  \/ Tick

SpecPipe == InitPipe /\ [][NextPipe]_vars

(***************************************************************************)
(* SpecStale: resampled audio framed and paced, with interruptions that    *)
(* find frames in the queue and a partial frame in the framer.             *)
(***************************************************************************)
InitStale == IsWorld(Connected(Budget(StaleCalls, StaleEvents, 0, 0)))

NextStale ==
  \/ Push
  \/ Tick
  \/ Interrupted

SpecStale == InitStale /\ [][NextStale]_vars

(***************************************************************************)
(* SpecCancel: the two cancellations, the interruption message and stop(), *)
(* on a translator that plays prompts; startFfmpegResampler() is called on *)
(* its own as well, so that a cancellation finds a subprocess attached.    *)
(* Nothing feeds the framer: this revision neither writes to the           *)
(* subprocess nor calls enqueueOutboundPcm8k with resampled audio.         *)
(***************************************************************************)
InitCancel == IsWorld(Connected(Budget(CancelCalls, CancelEvents, CancelChunks, 0)))

NextCancel ==
  \/ PlayTts
  \/ Stop
  \/ Tick
  \/ Interrupted
  \/ StartFfmpegResampler

SpecCancel == InitCancel /\ [][NextCancel]_vars

(***************************************************************************)
(* SpecInbound: caller audio on its way to the backend, through a session  *)
(* whose sendRealtimeInput may throw.                                      *)
(***************************************************************************)
InitInbound == IsWorld(Connected(Budget(InboundCalls, 0, 0, InboundFaults)))

NextInbound ==
  \/ HandleInboundPcm
  \/ HandleInboundBurst
  \/ SessionBreaks
  \/ Stop
  \/ ConnectResolve

SpecInbound == InitInbound /\ [][NextInbound]_vars

(***************************************************************************)
(* SpecDiscard: stop() on a translator that holds audio in every buffer.   *)
(* It starts connected, with a transcript begun and 100 bytes of caller    *)
(* audio carried; the framer then queues frames and keeps a partial one.   *)
(***************************************************************************)
InitDiscard ==
  IsWorld(handleInboundPcm(
            onmessage(Connected(Budget(DiscardCalls, 0, 0, 0)),
                      [interrupted |-> FALSE, data |-> NoData, text |-> <<"hi">>,
                       turnComplete |-> FALSE]),
            InboundChunk(100, 1), "inbound"))

NextDiscard ==
  \/ Push
  \/ Stop
  \/ Tick

SpecDiscard == InitDiscard /\ [][NextDiscard]_vars

(***************************************************************************)
(* SpecTurn: the transcript of the backend's turns, message by message,    *)
(* and the pacer playing what a finished turn queued.                      *)
(***************************************************************************)
InitTurn == IsWorld(Connected(Budget(0, TurnEvents, 0, 0)))

NextTurn ==
  \/ OnMessage
  \/ OnAudioMessage
  \/ Tick

SpecTurn == InitTurn /\ [][NextTurn]_vars

(***************************************************************************)
(* SpecFair: the pacer under bursts of frames and cancellations, on a      *)
(* transport that stays writable; setInterval keeps firing the callback    *)
(* every 20 ms while the timer is set, hence the weak fairness of Tick.    *)
(***************************************************************************)
InitFair == IsWorld(Connected(Budget(FairCalls, FairEvents, 0, 0)))

NextFair ==
  \/ Push
  \/ PlayTts
  \/ Tick
  \/ Interrupted
  \/ Stop

SpecFair == InitFair /\ [][NextFair]_vars /\ WF_vars(Tick)

(***************************************************************************)
(* SpecLegacy: the earlier translator of src/unnamed/part_000, started.    *)
(***************************************************************************)
InitLegacy ==
  IsWorld(legacyConnectResolved(
            legacyStart([Created(TRUE, Budget(LegacyCalls, LegacyEvents, 0, 0))
                         EXCEPT !.hist.left.call = @ + 1]),
            1))

NextLegacy ==
  \/ LegacyStart
  \/ LegacyHandleInboundPcm
  \/ LegacyStop
  \/ LegacyTick
  \/ LegacyFlushTick
  \/ LegacyConnectResolve
  \/ LegacyOnMessage
  \/ BackendClose

SpecLegacy == InitLegacy /\ [][NextLegacy]_vars

(***************************************************************************)
(* Claims.                                                                 *)
(***************************************************************************)
Pending == {a \in 1..Len(connects) : connects[a].state = "pending"}
CallsOf(a) == {i \in 1..Len(hist.calls) : hist.calls[i].attempt = a}
MediaSent == {i \in 1..Len(wsSent) : wsSent[i].event = "media"}
MarksSent == {i \in 1..Len(wsSent) : wsSent[i].event = "mark"}

\* C1: ensureGeminiSession starts a connection attempt only when the
\* instance holds neither a session nor an attempt in flight, so at most one
\* attempt is in flight and every live.connect call was started by exactly
\* one call; a call made while an attempt is in flight gets that attempt,
\* and all the callers of one attempt observe the session it resolved to
\* (null when it failed); a call made while connected starts nothing and
\* gets the existing session.
C1_IdempotentConnect ==
  /\ Cardinality(Pending) <= 1
  /\ geminiConnectPromise # 0 => Pending = {geminiConnectPromise}
  /\ geminiConnectPromise = 0 => Pending = {}
  /\ \A a \in 1..Len(connects) :
       Cardinality({i \in CallsOf(a) : hist.calls[i].started}) = 1
  /\ \A i \in 1..Len(hist.calls) :
       LET c == hist.calls[i]
       IN  /\ c.started => (c.held = 0 /\ c.inflight = 0)
           /\ c.held # 0 => (c.attempt = 0 /\ c.session = c.held)
           /\ (c.held = 0 /\ c.inflight # 0) => (c.attempt = c.inflight /\ ~c.started)
           /\ c.attempt # 0 =>
                /\ c.attempt \in 1..Len(connects)
                /\ connects[c.attempt].state = "pending" => c.session = -1
                /\ connects[c.attempt].state = "resolved" =>
                     c.session = connects[c.attempt].session /\ c.session # 0
                /\ connects[c.attempt].state = "rejected" => c.session = 0

\* An attempt resolved that start() and handleInboundPcm() both waited for,
\* with three callers in all, and a later call found the session connected.
C1_Witness ==
  /\ \E a \in 1..Len(connects) :
       /\ connects[a].state = "resolved"
       /\ Cardinality(CallsOf(a)) >= 3
       /\ {hist.calls[i].by : i \in CallsOf(a)} = {"start", "inbound"}
  /\ \E i \in 1..Len(hist.calls) : hist.calls[i].held # 0

\* C2: once the interruption message has been handled the queue is empty,
\* and a frame that was queued when an interruption (or a stop) was handled
\* is never handed to the transport: every media message carries a frame
\* queued after the latest cancellation that preceded the send.
C2_InterruptionFlush ==
  /\ hist.lastOp = "interrupted" => outboundMulawQueue = <<>>
  /\ \A i \in MediaSent : wsSent[i].made = wsSent[i].epoch

\* Frames were queued, an interruption discarded them before any tick had
\* sent one, and frames queued later were sent.
C2_Witness ==
  /\ hist.dropped > 0
  /\ MediaSent # {}
  /\ \A i \in MediaSent : wsSent[i].epoch >= 1
  /\ hist.left.call = 0

\* C4: a tick that finds the transport writable, a stream id and a queue of
\* N >= 1 well-sized frames sends exactly the head of the queue and removes
\* it; it sends the completion mark, once and right after that frame, and
\* stops the timer exactly when that frame was the last one.  N ticks thus
\* send the N frames in order, one per tick, with one mark after the Nth.
C4_PacerCadence ==
  [][(hist'.lastOp = "tick" /\ streamSid # 0 /\ wsReadyState = WS_OPEN
        /\ outboundMulawQueue # <<>> /\ Len(Head(outboundMulawQueue)) = 160)
     => /\ outboundMulawQueue' = Tail(outboundMulawQueue)
        /\ Len(wsSent') >= Len(wsSent) + 1
        /\ SubSeq(wsSent', 1, Len(wsSent)) = wsSent
        /\ wsSent'[Len(wsSent) + 1].event = "media"
        /\ wsSent'[Len(wsSent) + 1].payload = Head(outboundMulawQueue)
        /\ wsSent'[Len(wsSent) + 1].streamSid = streamSid
        /\ IF Len(outboundMulawQueue) = 1
           THEN /\ Len(wsSent') = Len(wsSent) + 2
                /\ wsSent'[Len(wsSent) + 2].event = "mark"
                /\ ~outboundPlaybackTimer'
           ELSE /\ Len(wsSent') = Len(wsSent) + 1
                /\ outboundPlaybackTimer']_vars

\* Three frames queued by two prompts were sent by three ticks in a row,
\* followed by the only mark; the queue is empty and the timer stopped.
C4_Witness ==
  /\ Len(wsSent) = 4
  /\ \A i \in 1..3 : wsSent[i].event = "media"
  /\ wsSent[4].event = "mark"
  /\ wsSent[1].payload # wsSent[3].payload
  /\ outboundMulawQueue = <<>>
  /\ ~outboundPlaybackTimer
  /\ hist.lastOp = "tick"
  /\ hist.epoch = 0

C8_FlushOnce ==
  [][hist'.lastOp = "flush"
     => IF outboundPcm8kRemainder # <<>>
        THEN /\ outboundMulawQueue' =
                  Append(outboundMulawQueue,
                         pcmToMulaw(outboundPcm8kRemainder \o
                           BufferAlloc(FRAME_BYTES_PCM16 - Len(outboundPcm8kRemainder), 0)))
             /\ outboundPcm8kRemainder' = <<>>
             /\ hist'.lastEmit = 1
        ELSE /\ hist'.lastEmit = 0
             /\ UNCHANGED <<outboundMulawQueue, outboundPcm8kRemainder,
                            outboundPlaybackTimer, wsSent>>]_vars

\* A push left a partial frame, and two flushes in succession followed:
\* one padded frame in all.
C8_Witness ==
  /\ hist.lastOp = "flush"
  /\ hist.prevOp = "flush"
  /\ hist.pads = 1
  /\ hist.nFrames = 1
  /\ Len(outboundMulawQueue) = 1
  /\ outboundPcm8kRemainder = <<>>

\* C9: the carry holds fewer bytes than a frame and an even number of
\* them; the PCM bytes of the frames emitted since the last reset followed
\* by the carry are the bytes accepted since then (each chunk without its
\* dangling odd byte, the padding of a flush included); and the frames a
\* push or a flush has just queued are the mu-law encoding of those bytes.
C9_CarryInvariant ==
  /\ Len(outboundPcm8kRemainder) < FRAME_BYTES_PCM16
  /\ Len(outboundPcm8kRemainder) % 2 = 0
  /\ hist.emitted \o outboundPcm8kRemainder = hist.accepted
  /\ Len(hist.emitted) = hist.nFrames * FRAME_BYTES_PCM16
  /\ hist.lastOp \in {"push", "flush"} =>
       /\ Len(outboundMulawQueue) >= hist.lastEmit
       /\ \A k \in 1..hist.lastEmit :
            outboundMulawQueue[Len(outboundMulawQueue) - hist.lastEmit + k] =
              pcmToMulaw(Subarray(hist.emitted,
                                  (hist.nFrames - hist.lastEmit + k - 1) * FRAME_BYTES_PCM16,
                                  (hist.nFrames - hist.lastEmit + k) * FRAME_BYTES_PCM16))

\* Chunks of odd and of even length were pushed, two frames or more came
\* out and a partial frame is carried.
C9_Witness ==
  /\ hist.nFrames >= 2
  /\ outboundPcm8kRemainder # <<>>
  /\ Len(hist.accepted) < hist.pushed
  /\ hist.lastOp = "push"

C5_FrameSize ==
  /\ \A i \in MediaSent : Len(wsSent[i].payload) = FRAME_BYTES_MULAW
  /\ \A k \in 1..Len(outboundMulawQueue) : Len(outboundMulawQueue[k]) = FRAME_BYTES_MULAW

\* A frame that the framer made of resampler output and the padded last frame
\* of a prompt were both sent.
C5_Witness ==
  /\ hist.nFrames >= 1
  /\ \E i \in MediaSent : wsSent[i].payload[FRAME_BYTES_MULAW] = MULAW_SILENCE
  /\ \E i \in MediaSent : wsSent[i].payload[FRAME_BYTES_MULAW] # MULAW_SILENCE
  /\ outboundMulawQueue = <<>>

C6_PaddingOnlyAtEnd ==
  \A i \in MediaSent : \A j \in MediaSent :
    (i < j /\ wsSent[i].pad > 0) => wsSent[j].epoch > wsSent[i].epoch

\* A stop() has been handled on this instance.
Stopped == \E k \in 1..Len(hist.cuts) : hist.cuts[k] = "stop"

\* C11: once stop() has run the instance is closed for good: it holds no
\* backend session, whether a later start(), a later handleInboundPcm() or
\* a connection attempt that resolves late would install it, and no
\* live.connect call is made after a stop().
C11_TerminalClosed ==
  Stopped =>
    /\ geminiSession = 0
    /\ \A a \in 1..Len(connects) :
         \A k \in 1..connects[a].epoch : hist.cuts[k] # "stop"

EndOfInput == [kind |-> "audioStreamEnd", data |-> <<>>]
CloseCall == [kind |-> "close", data |-> <<>>]

\* C12: a stop() that finds a session makes two calls on it, end-of-input
\* first and close second, each reaching the backend unless that very call
\* throws (the other is made all the same), and stop() completes: the
\* instance no longer refers to the session; a stop() that finds no session
\* makes no call.  A session that got end-of-input or close gets nothing
\* more, and nothing is ever sent to a session the instance does not hold.
C12_StopSequence ==
  [][/\ hist'.lastOp = "stop" =>
          /\ geminiSession' = 0
          /\ IF geminiSession # 0
             THEN /\ sessions'[geminiSession].received =
                       sessions[geminiSession].received
                         \o (IF hist'.threw[1] THEN <<>> ELSE <<EndOfInput>>)
                         \o (IF hist'.threw[2] THEN <<>> ELSE <<CloseCall>>)
                  /\ \A o \in 1..Len(sessions) :
                       o # geminiSession => sessions'[o] = sessions[o]
             ELSE sessions' = sessions
     /\ \A sid \in 1..Len(sessions) :
          /\ (\E i \in 1..Len(sessions[sid].received) :
                 sessions[sid].received[i] \in {EndOfInput, CloseCall})
               => sessions'[sid].received = sessions[sid].received
          /\ sessions'[sid].received # sessions[sid].received
               => sid = geminiSession]_vars

\* Audio was forwarded to a session, then a stop() sent it end-of-input
\* and close; a stop() during which a call threw was handled as well, and
\* a stop() that found no session.
C12_Witness ==
  /\ \E sid \in 1..Len(sessions) :
       LET r == sessions[sid].received
       IN  /\ Len(r) >= 3
           /\ r[1].kind = "audio"
           /\ r[Len(r) - 1] = EndOfInput
           /\ r[Len(r)] = CloseCall
  /\ hist.left.proc = 0
  /\ hist.lastOp = "stop"
  /\ Len(hist.cuts) = 3

\* C13: when a connection attempt fails, the instance holds no session and
\* no attempt in flight, every caller of the attempt observes a null
\* session, nothing escapes to them, and no new attempt is made by the
\* failure itself: live.connect is called only by a start() or a
\* handleInboundPcm() that finds neither a session nor an attempt.
C13_FailedConnect ==
  [][/\ hist'.lastOp = "connectRejected" =>
          /\ geminiSession' = 0
          /\ geminiConnectPromise' = 0
          /\ connects'[geminiConnectPromise].state = "rejected"
          /\ Len(connects') = Len(connects)
          /\ sessions' = sessions
          /\ hist'.uncaught = hist.uncaught
          /\ \A i \in 1..Len(hist'.calls) :
               hist'.calls[i].attempt = geminiConnectPromise
                 => hist'.calls[i].session = 0
     /\ Len(connects') # Len(connects) =>
          /\ Len(connects') = Len(connects) + 1
          /\ hist'.lastOp \in {"start", "handleInboundPcm"}
          /\ geminiSession = 0
          /\ geminiConnectPromise = 0]_vars

\* An attempt that start() and handleInboundPcm() waited for failed; the
\* next inbound audio started the second attempt.
C13_Witness ==
  /\ Len(connects) = 2
  /\ connects[1].state = "rejected"
  /\ Cardinality(CallsOf(1)) >= 2
  /\ \A i \in CallsOf(1) : hist.calls[i].session = 0
  /\ \E i \in CallsOf(2) : hist.calls[i].by = "inbound" /\ hist.calls[i].started

\* Caller audio as handleInboundPcm takes it: whole 16-bit samples.
Aligned(pcm8k) ==
  IF Len(pcm8k) % 2 # 0 THEN Subarray(pcm8k, 0, Len(pcm8k) - 1) ELSE pcm8k

RECURSIVE AlignedAll(_)
AlignedAll(chunks) ==
  IF chunks = <<>> THEN <<>> ELSE Aligned(Head(chunks)) \o AlignedAll(Tail(chunks))

\* The audio messages that carry bytes, 320 bytes each, and what is left over.
AudioFrames(bytes) ==
  [k \in 1..(Len(bytes) \div GEMINI_FRAME_BYTES) |->
     [kind |-> "audio",
      data |-> Subarray(bytes, (k - 1) * GEMINI_FRAME_BYTES, k * GEMINI_FRAME_BYTES)]]
LeftOver(bytes) ==
  SubarrayFrom(bytes, (Len(bytes) \div GEMINI_FRAME_BYTES) * GEMINI_FRAME_BYTES)

\* C14: when the backend closes a session the instance holds no session
\* and starts no attempt by itself; the next start() or inbound audio that
\* finds the instance idle makes exactly one live.connect call; nothing is
\* sent to a closed session, and inbound audio handed over while a session
\* is held goes, frame by frame, to that session.
C14_BackendClose ==
  [][/\ (hist'.lastOp = "onclose"
           /\ \E sid \in 1..Len(sessions) :
                sessions[sid].state = "open" /\ sessions'[sid].state = "closed") =>
          /\ geminiSession' = 0
          /\ geminiConnectPromise' = geminiConnectPromise
          /\ Len(connects') = Len(connects)
     /\ (hist'.lastOp \in {"start", "handleInboundPcm"} /\ hist'.lastTrack # "outbound"
           /\ geminiClient /\ geminiSession = 0 /\ geminiConnectPromise = 0) =>
          /\ Len(connects') = Len(connects) + 1
          /\ geminiConnectPromise' = Len(connects')
          /\ connects'[Len(connects')].state = "pending"
     /\ \A sid \in 1..Len(sessions) :
          sessions[sid].state = "closed" => sessions'[sid] = sessions[sid]
     /\ (hist'.lastOp = "handleInboundPcm" /\ hist'.lastTrack # "outbound"
           /\ geminiSession # 0) =>
          \E in \in InboundInputs :
            /\ in[2] = hist'.lastTrack
            /\ LET all == geminiFrameCarry \o Aligned(InboundChunk(in[1], hist.left.call))
               IN  /\ sessions'[geminiSession].received =
                        sessions[geminiSession].received \o AudioFrames(all)
                   /\ geminiFrameCarry' = LeftOver(all)]_vars

\* The backend closed the first session; inbound audio then started the
\* second attempt, which resolved, and audio handed over afterwards was
\* forwarded to the second session as well.
C14_Witness ==
  /\ Len(sessions) = 2
  /\ sessions[1].state = "closed"
  /\ \A i \in 1..Len(sessions[1].received) : sessions[1].received[i].kind = "audio"
  /\ sessions[2].state = "open"
  /\ Len(sessions[2].received) >= 2
  /\ Len(connects) = 2
  /\ geminiSession = 2

\* C15: audio handed to handleInboundPcm while the instance holds no
\* session is sent nowhere and is kept, in arrival order, with the attempt
\* in flight (which the call starts when there is none); when the attempt
\* resolves, the new session receives the bytes carried over followed by
\* the kept chunks in arrival order, cut into 320-byte messages, each byte
\* once, and what does not fill a message stays in the carry.
C15_QueuedInbound ==
  [][/\ (hist'.lastOp = "handleInboundPcm" /\ geminiSession = 0) =>
          /\ sessions' = sessions
          /\ geminiFrameCarry' = geminiFrameCarry
          /\ (geminiClient /\ hist'.lastTrack # "outbound") =>
               /\ geminiConnectPromise' # 0
               /\ \E in \in InboundInputs :
                    /\ in[2] = hist'.lastTrack
                    /\ connects'[geminiConnectPromise'].waiters =
                         (IF geminiConnectPromise # 0
                          THEN connects[geminiConnectPromise].waiters ELSE <<>>)
                           \o <<InboundChunk(in[1], hist.left.call)>>
     /\ \A a \in 1..Len(connects) :
          (connects[a].state = "pending" /\ connects'[a].state = "pending") =>
            /\ Len(connects'[a].waiters) >= Len(connects[a].waiters)
            /\ SubSeq(connects'[a].waiters, 1, Len(connects[a].waiters)) = connects[a].waiters
     /\ hist'.lastOp = "connectResolved" =>
          LET all == geminiFrameCarry \o AlignedAll(connects[geminiConnectPromise].waiters)
          IN  /\ Len(sessions') = Len(sessions) + 1
              /\ geminiSession' = Len(sessions')
              /\ sessions'[geminiSession'].received = AudioFrames(all)
              /\ geminiFrameCarry' = LeftOver(all)
              /\ \A sid \in 1..Len(sessions) : sessions'[sid] = sessions[sid]]_vars

\* Audio was handed over while idle and again while connecting; the
\* attempt resolved and the session received both chunks, the first first.
C15_Witness ==
  /\ Len(sessions) = 1
  /\ hist.lastOp = "connectResolved"
  /\ Len(connects[1].waiters) >= 2
  /\ Len(sessions[1].received) >= 2
  /\ sessions[1].received[1].data = Aligned(connects[1].waiters[1])
  /\ sessions[1].received[1].data # sessions[1].received[2].data

\* C16: a handleInboundPcm call whose track tag is neither empty nor
\* 'inbound' changes nothing: the carry, the sessions and what they
\* received, the attempts and their waiters all stay as they were.
C16_OutboundTrackIgnored ==
  [][(hist'.lastOp = "handleInboundPcm" /\ hist'.lastTrack = "outbound") =>
       /\ UNCHANGED <<geminiSession, geminiConnectPromise, geminiFrameCarry,
                      geminiInPcmChunks, connects, sessions, wsSent,
                      outboundMulawQueue, outboundPlaybackTimer>>
       /\ hist'.calls = hist.calls]_vars

\* A frame of the outbound track was handed over while a session was held
\* and a partial frame of caller audio was in the carry.
C16_Witness ==
  /\ hist.lastOp = "handleInboundPcm"
  /\ hist.lastTrack = "outbound"
  /\ geminiSession # 0
  /\ geminiFrameCarry # <<>>

\* C17: whatever fails and however often (spawn throwing, the 'error'
\* event, 'close' with a code other than 0 or with a signal), the instance
\* falls back once: each such failure leaves ffmpegUnavailable set, once
\* set it stays set, no subprocess is spawned from then on, and none is
\* attached; while it is not set, a startFfmpegResampler call that finds
\* no subprocess attached spawns exactly one or, spawn throwing, sets it.
C17_FallbackStable ==
  [][/\ ffmpegUnavailable =>
          /\ ffmpegUnavailable'
          /\ Len(procs') = Len(procs)
          /\ ffmpegResampler' = 0
     /\ hist'.lastOp = "error" => (ffmpegUnavailable' /\ ffmpegResampler' = 0)
     /\ (hist'.lastOp = "close"
           /\ \E p \in 1..Len(procs) :
                ~procs[p].closed /\ procs'[p].closed /\ procs[p].code # 0)
          => (ffmpegUnavailable' /\ ffmpegResampler' = 0)
     /\ Len(procs') # Len(procs) =>
          /\ Len(procs') = Len(procs) + 1
          /\ hist'.lastOp = "startFfmpegResampler"
          /\ ffmpegResampler = 0
          /\ ffmpegResampler' = Len(procs')
     /\ (hist'.lastOp = "startFfmpegResampler" /\ ~ffmpegUnavailable /\ ffmpegResampler = 0)
          => (Len(procs') = Len(procs) + 1 \/ ffmpegUnavailable')]_vars

\* Two subprocesses were spawned and both ended with a failure reported
\* (a 'close' with a signal or a code, or an 'error'); startFfmpegResampler
\* was called after them and spawned none.
C17_Witness ==
  /\ ffmpegUnavailable
  /\ Len(procs) = 2
  /\ \A p \in 1..2 : ~procs[p].alive /\ procs[p].closed /\ (procs[p].code # 0 \/ procs[p].errored)
  /\ ffmpegResampler = 0
  /\ hist.lastOp = "startFfmpegResampler"

\* C18: a pacer tick during which the transport's send throws abandons the
\* send, stops the pacing timer, and lets no exception out of the callback.
C18_SendFailure ==
  [][(hist'.lastOp = "tick" /\ hist.sendThrows /\ ~hist'.sendThrows) =>
       /\ wsSent' = wsSent
       /\ ~outboundPlaybackTimer'
       /\ hist'.uncaught = hist.uncaught]_vars

\* C20: the instance has one pacing interval while outboundPlaybackTimer
\* is set and none while it is not, whatever sequence of
\* ensureOutboundPlayback and stopOutboundPlayback calls the operations
\* make; and an operation that leaves the queue longer than it found it
\* leaves the timer running.
C20_SingleTimer ==
  [][/\ hist'.intervals = (IF outboundPlaybackTimer' THEN 1 ELSE 0)
     /\ Len(outboundMulawQueue') > Len(outboundMulawQueue) => outboundPlaybackTimer'
     /\ (outboundMulawQueue' # <<>>
           /\ hist'.lastOp \in {"push", "playTts"}) => outboundPlaybackTimer']_vars

\* The framer queued a frame and started the timer; playTts then queued
\* more and called ensureOutboundPlayback while the timer was running.
C20_Witness ==
  /\ hist.lastOp = "playTts"
  /\ hist.nFrames >= 1
  /\ Len(outboundMulawQueue) > hist.nFrames
  /\ outboundPlaybackTimer
  /\ hist.intervals = 1

MediaPayloads(sent) ==
  LET media == SelectSeq(sent, LAMBDA m : m.event = "media")
  IN  [i \in 1..Len(media) |-> media[i].payload]
WellSized(queue) == SelectSeq(queue, LAMBDA f : Len(f) = FRAME_BYTES_MULAW)

\* C19: a tick that finds a buffer of a wrong size at the head of the
\* queue removes it and hands nothing to the transport; what the transport
\* gets over the ticks is the well-sized frames of the queue in their
\* order, each 160 bytes; every tick shortens the queue or stops the
\* timer, and whenever the timer is stopped the queue is empty.
C19_MalformedDropped ==
  [][hist'.lastOp = "tick" =>
       /\ (outboundMulawQueue # <<>> /\ Len(Head(outboundMulawQueue)) # FRAME_BYTES_MULAW) =>
            /\ wsSent' = wsSent
            /\ outboundMulawQueue' = Tail(outboundMulawQueue)
       /\ MediaPayloads(wsSent') \o WellSized(outboundMulawQueue') =
            MediaPayloads(wsSent) \o WellSized(outboundMulawQueue)
       /\ \A i \in 1..Len(wsSent') :
            wsSent'[i].event = "media" => Len(wsSent'[i].payload) = FRAME_BYTES_MULAW
       /\ \/ Len(outboundMulawQueue') < Len(outboundMulawQueue)
          \/ outboundPlaybackTimer /\ ~outboundPlaybackTimer' /\ outboundMulawQueue = <<>>
       /\ ~outboundPlaybackTimer' => outboundMulawQueue' = <<>>]_vars

\* The queue held three buffers, the first of a wrong size: the second and
\* the third were sent, in this order, the first never; the queue is empty
\* and the timer stopped.
C19_Witness ==
  /\ Len(wsSent) >= 2
  /\ wsSent[1].event = "media" /\ wsSent[1].payload = GivenFrame(FRAME_BYTES_MULAW, 2)
  /\ wsSent[2].event = "media" /\ wsSent[2].payload = GivenFrame(FRAME_BYTES_MULAW, 3)
  /\ outboundMulawQueue = <<>>
  /\ ~outboundPlaybackTimer
\* The frames handed to the transport so far followed by the frames waiting.
Placed(sent, queue) == MediaPayloads(sent) \o queue

IsPrefix(a, b) == Len(a) <= Len(b) /\ SubSeq(b, 1, Len(a)) = a

\* C21: a tick hands at most one frame to the transport; whatever a step
\* does other than a cancellation (an interruption or stop()), the frames
\* sent followed by the frames waiting stay what they were, with the newly
\* queued frames behind them (no frame skipped, FIFO order, bursts queued
\* during playback included), and a cancellation sends nothing; while the
\* transport stays writable and the timer keeps firing, a queue that holds
\* frames is eventually empty: by the above, each of its frames was sent in
\* its turn unless a cancellation removed it.
C21_NoFrameSkipped ==
  /\ [][/\ (hist'.lastOp = "tick") =>
              (Len(MediaPayloads(wsSent')) <= Len(MediaPayloads(wsSent)) + 1)
        /\ (hist'.epoch = hist.epoch) =>
              IsPrefix(Placed(wsSent, outboundMulawQueue),
                       Placed(wsSent', outboundMulawQueue'))
        /\ (hist'.epoch # hist.epoch) =>
              (MediaPayloads(wsSent') = MediaPayloads(wsSent))]_vars
  /\ (outboundMulawQueue # <<>>) ~> (outboundMulawQueue = <<>>)

\* A prompt of two frames was queued behind a frame still waiting, after
\* the pacer had sent a frame and before the queue had ever drained.
C21_Witness ==
  /\ hist.lastOp = "playTts"
  /\ MediaSent # {}
  /\ MarksSent = {}
  /\ Len(outboundMulawQueue) = 3
  /\ hist.left.call = FairCalls - 2
  /\ outboundPlaybackTimer
  /\ hist.epoch = 0

\* C22: a step hands a 'mark' to the transport only as the message right
\* after a 'media' message of the same step and stream id, on a tick that
\* found frames and a writable transport and left the queue empty, and it
\* hands over one mark at most; a tick whose media message left the queue
\* empty does hand over that mark.  So no mark comes from a tick on an empty
\* queue or an unready transport, from an interruption or from stop().
C22_OneMarkPerDrain ==
  [][LET old == Len(wsSent)
         new == {i \in 1..Len(wsSent') : i > old}
         marks == {i \in new : wsSent'[i].event = "mark"}
         media == {i \in new : wsSent'[i].event = "media"}
     IN  /\ SubSeq(wsSent', 1, old) = wsSent
         /\ Cardinality(marks) <= 1
         /\ \A i \in marks :
              /\ i - 1 \in media
              /\ wsSent'[i - 1].streamSid = wsSent'[i].streamSid
              /\ wsSent'[i].streamSid = streamSid
              /\ hist'.lastOp = "tick"
              /\ outboundMulawQueue # <<>>
              /\ outboundMulawQueue' = <<>>
              /\ streamSid # 0
              /\ wsReadyState = WS_OPEN
         /\ (media # {} /\ outboundMulawQueue' = <<>>) => (marks # {})]_vars

\* Two prompts were played out one after the other, each drain followed by
\* its mark, and an interruption in between sent none.
C22_Witness ==
  /\ Cardinality(MarksSent) = 2
  /\ hist.lastOp = "tick"
  /\ wsSent[Len(wsSent)].event = "mark"
  /\ hist.epoch >= 1
  /\ outboundMulawQueue = <<>>

\* C23: a playTts call that synthesized L > 0 bytes leaves the frames that
\* were queued where they were and puts ceil(L/160) buffers of 160 bytes
\* behind them; these, one after the other, are the synthesized bytes
\* followed by 0x7f bytes only, fewer than a frame of them (so only the last
\* frame is padded); the timer is set afterwards.
C23_PromptFrames ==
  [][(hist'.lastOp = "playTts" /\ hist'.lastTts # <<>>) =>
       LET L == Len(hist'.lastTts)
           n == (L + FRAME_BYTES_MULAW - 1) \div FRAME_BYTES_MULAW
           added == SubSeq(outboundMulawQueue', Len(outboundMulawQueue) + 1,
                           Len(outboundMulawQueue'))
       IN  /\ Len(outboundMulawQueue') = Len(outboundMulawQueue) + n
           /\ SubSeq(outboundMulawQueue', 1, Len(outboundMulawQueue)) = outboundMulawQueue
           /\ \A k \in 1..Len(added) : Len(added[k]) = FRAME_BYTES_MULAW
           /\ BufferConcat(added)
                = hist'.lastTts \o BufferAlloc(n * FRAME_BYTES_MULAW - L, MULAW_SILENCE)
           /\ outboundPlaybackTimer']_vars

\* A prompt of 230 bytes was queued as two frames, the second one padded
\* with 90 bytes of silence, behind a frame of the framer that waited.
C23_Witness ==
  /\ hist.lastOp = "playTts"
  /\ Len(hist.lastTts) = 230
  /\ Len(outboundMulawQueue) = 3
  /\ outboundMulawQueue[1] # outboundMulawQueue[2]
  /\ SubSeq(outboundMulawQueue[3], 71, 160) = BufferAlloc(90, MULAW_SILENCE)
  /\ outboundPlaybackTimer

\* C24: whatever the session is (none yet, connecting, connected, stopped),
\* a playTts call leaves the session reference, the connection attempt in
\* flight, the inbound carry, the attempts made and what the backend got as
\* they were, and its effect on the outbound queue depends on the audio it
\* synthesized only: ceil(L/160) frames that begin with that audio are put
\* behind the frames that wait.
C24_PromptAnyState ==
  [][hist'.lastOp = "playTts" =>
       LET L == Len(hist'.lastTts)
           n == (L + FRAME_BYTES_MULAW - 1) \div FRAME_BYTES_MULAW
           added == SubSeq(outboundMulawQueue', Len(outboundMulawQueue) + 1,
                           Len(outboundMulawQueue'))
       IN  /\ geminiSession' = geminiSession
           /\ geminiConnectPromise' = geminiConnectPromise
           /\ geminiFrameCarry' = geminiFrameCarry
           /\ connects' = connects
           /\ sessions' = sessions
           /\ outboundMulawQueue' = outboundMulawQueue \o added
           /\ Len(added) = n
           /\ SubSeq(BufferConcat(added), 1, L) = hist'.lastTts]_vars

\* A prompt was queued by a translator that was stopped, started again and
\* is connecting.
C24_Witness ==
  /\ hist.lastOp = "playTts"
  /\ hist.lastTts # <<>>
  /\ Stopped
  /\ geminiSession = 0
  /\ geminiConnectPromise # 0
  /\ Len(outboundMulawQueue) >= 1

\* What the handlers of connection d use (part_001 lines 118-119 and 60):
\* the translator its 'media' case calls, the stream id the translator
\* created for it reads, whether its 'media' case forwards the audio.
HandlerOf(b, d) == b.gemini
StreamSidFor(b, d) == b.streamSid
Forwards(b, d) == b.mode = "translation"

\* C25: an event of one call (its connection, a message of its stream, its
\* socket closing, a mode its caller asked for) changes nothing for another
\* call that is streaming: neither the translator that handles the other
\* call's audio, nor the stream id the other call's frames are sent with,
\* nor whether the other call's audio is forwarded.
C25_CallsIsolated ==
  [][\A d \in 1..Len(bridge.conns) :
       (bridge.conns[d].state = "streaming" /\ bridge' # bridge /\ bridge'.event[2] # d) =>
         /\ HandlerOf(bridge', d) = HandlerOf(bridge, d)
         /\ StreamSidFor(bridge', d) = StreamSidFor(bridge, d)
         /\ Forwards(bridge', d) = Forwards(bridge, d)]_vars

\* The samples of a PCM buffer, in order.
SamplesOf(pcm) == [i \in 1..(Len(pcm) \div 2) |-> ReadInt16LE(pcm, (i - 1) * 2)]

\* C26: every 16-bit sample x comes back from pcmToMulaw and mulawToPcm
\* within half a quantization step of the segment of the law x falls in
\* (4 in the lowest segment, doubling up to 512 in the highest), samples
\* beyond +-32635 counting as +-32635; a silent sample 0 comes back as 0.
C26_RoundTripBound ==
  (audioLib.op = "decoded" /\ audioLib.given = "pcm") =>
    \A i \in 1..Len(SamplesOf(audioLib.pcm)) :
      LET x == SamplesOf(audioLib.pcm)[i]
          y == SamplesOf(audioLib.back)[i]
          mag == IF x < 0 THEN -x ELSE x
          clipped == IF mag > MULAW_MAX THEN MULAW_MAX ELSE mag
          segment == CHOOSE e \in 0..7 :
                       /\ clipped + MULAW_BIAS < 256 * Pow2(e)
                       /\ e > 0 => clipped + MULAW_BIAS >= 128 * Pow2(e)
          half == 4 * Pow2(segment)
          target == IF x < 0 THEN -clipped ELSE clipped
      IN  /\ y - target <= half
          /\ target - y <= half
          /\ x = 0 => y = 0

\* C27: of two 16-bit samples x <= y, x does not come back from the codec
\* above y.
C27_RoundTripMonotonic ==
  (audioLib.op = "decoded" /\ audioLib.given = "pcm") =>
    \A i, j \in 1..Len(SamplesOf(audioLib.pcm)) :
      SamplesOf(audioLib.pcm)[i] <= SamplesOf(audioLib.pcm)[j]
        => SamplesOf(audioLib.back)[i] <= SamplesOf(audioLib.back)[j]

\* C28: pcmToMulaw returns one byte per 16-bit sample, the extremes -32768
\* and 32767 included, and each byte is what the sample alone encodes to;
\* mulawToPcm returns one 16-bit sample per byte, for each of the 256 codes,
\* of a magnitude of 32635 at most, and each sample is what the byte alone
\* decodes to.
C28_CodecTotal ==
  /\ audioLib.op \in {"encoded", "decoded"} /\ audioLib.given = "pcm" =>
       /\ Len(audioLib.mulaw) * 2 = Len(audioLib.pcm)
       /\ \A i \in 1..Len(audioLib.mulaw) :
            /\ audioLib.mulaw[i] \in 0..255
            /\ <<audioLib.mulaw[i]>> = pcmToMulaw(SubSeq(audioLib.pcm, 2 * i - 1, 2 * i))
  /\ audioLib.op = "decoded" =>
       /\ Len(audioLib.back) = 2 * Len(audioLib.mulaw)
       /\ \A i \in 1..Len(audioLib.mulaw) :
            /\ audioLib.back[2 * i - 1] \in 0..255 /\ audioLib.back[2 * i] \in 0..255
            /\ SamplesOf(audioLib.back)[i] <= MULAW_MAX
            /\ SamplesOf(audioLib.back)[i] >= -MULAW_MAX
            /\ SubSeq(audioLib.back, 2 * i - 1, 2 * i) = mulawToPcm(<<audioLib.mulaw[i]>>)

\* The samples 32767 and -32768, one after the other, were encoded to two
\* bytes and decoded to two samples.
C28_Witness ==
  /\ audioLib.op = "decoded"
  /\ audioLib.given = "pcm"
  /\ SamplesOf(audioLib.pcm) = <<32767, -32768>>
  /\ Len(audioLib.mulaw) = 2
  /\ Len(audioLib.back) = 4

\* C30: resamplePcm16 with the rate to convert to equal to the rate to
\* convert from returns the buffer it was given, whatever its length.
C30_ResampleIdentity ==
  (audioLib.op = "resampled" /\ audioLib.fromRate = audioLib.toRate) => audioLib.out = audioLib.pcm

\* A buffer of an odd number of bytes was resampled from 16 kHz to 16 kHz.
C30_Witness ==
  /\ audioLib.op = "resampled"
  /\ audioLib.fromRate = 16000
  /\ audioLib.toRate = 16000
  /\ Len(audioLib.pcm) % 2 = 1
  /\ audioLib.out = audioLib.pcm

\* C31: for unequal rates and n = floor(len / 2) samples given, resamplePcm16
\* returns floor(n * toRate / fromRate) samples; the i-th of them (from 0) is
\* the rounded linear interpolation between the source samples at
\* floor(i * fromRate / toRate) and at that index plus one, clamped to
\* n - 1; both indexes lie in 0..n-1 and the value lies between the two
\* source samples.  From 8000 to 16000 the even outputs are the inputs and
\* the odd ones the rounded means of two neighbours.
C31_ResampleInterpolates ==
  (audioLib.op = "resampled" /\ audioLib.fromRate # audioLib.toRate) =>
    LET from == audioLib.fromRate
        to == audioLib.toRate
        in == SamplesOf(audioLib.pcm)
        out == SamplesOf(audioLib.out)
        n == Len(audioLib.pcm) \div 2
    IN  /\ Len(audioLib.out) = 2 * ((n * to) \div from)
        /\ \A i \in 0..(Len(out) - 1) :
             LET lo == (i * from) \div to
                 hi == Min(lo + 1, n - 1)
                 part == (i * from) % to
                 exact == in[lo + 1] * to + (in[hi + 1] - in[lo + 1]) * part
             IN  /\ lo \in 0..(n - 1)
                 /\ hi \in 0..(n - 1)
                 /\ 2 * (out[i + 1] * to - exact) \in (1 - to)..to
                 /\ out[i + 1] >= Min(in[lo + 1], in[hi + 1])
                 /\ out[i + 1] <= Max(in[lo + 1], in[hi + 1])
                 /\ out[i + 1] \in -32768..32767
        /\ (from = 8000 /\ to = 16000) =>
             \A k \in 0..(n - 1) :
               /\ out[2 * k + 1] = in[k + 1]
               /\ 2 * out[2 * k + 2] - (in[k + 1] + in[Min(k + 1, n - 1) + 1]) \in {0, 1}

\* Six samples that are not all equal were resampled from 24 kHz to 8 kHz
\* into two, and the same from 8 kHz to 16 kHz into twelve.
C31_Witness ==
  /\ audioLib.op = "resampled"
  /\ Len(audioLib.pcm) \in {12, 13}
  /\ \/ audioLib.fromRate = 8000 /\ audioLib.toRate = 16000 /\ Len(audioLib.out) = 24
     \/ audioLib.fromRate = 24000 /\ audioLib.toRate = 8000 /\ Len(audioLib.out) = 4
  /\ SamplesOf(audioLib.pcm)[1] # SamplesOf(audioLib.pcm)[2]

\* C32: whatever the sizes of the chunks the subprocess output arrives in,
\* what the stdout listener hands to the framer is of even length (and
\* nothing is handed on when that would be no bytes), the carry holds at
\* most one byte, and the bytes handed on followed by the carry are the
\* bytes received so far, in order.
C32_PipeRealigned ==
  /\ [](/\ Len(ffmpegPcmCarry) <= 1
        /\ Len(hist.accepted) % 2 = 0
        /\ \A p \in 1..Len(procs) :
             hist.accepted \o ffmpegPcmCarry \o procs[p].pending
               = PipeOutput(Len(hist.accepted) + Len(ffmpegPcmCarry) + Len(procs[p].pending)))
  /\ [][(hist'.lastOp = "stdout") =>
          LET chunk == Subarray(procs[1].pending, 0,
                                Len(procs[1].pending) - Len(procs'[1].pending))
              handed == SubarrayFrom(hist'.accepted, Len(hist.accepted))
          IN  /\ IsPrefix(hist.accepted, hist'.accepted)
              /\ Len(handed) % 2 = 0
              /\ handed \o ffmpegPcmCarry' = ffmpegPcmCarry \o chunk
              /\ (Len(handed) = 0) => /\ outboundPcm8kRemainder' = outboundPcm8kRemainder
                                      /\ outboundMulawQueue' = outboundMulawQueue
              /\ hist'.emitted \o outboundPcm8kRemainder' = hist'.accepted]_vars

\* All of an odd number of bytes arrived, in chunks of which one was cut in
\* the middle of a sample: one frame was queued and the last byte is carried.
C32_Witness ==
  /\ hist.lastOp = "stdout"
  /\ procs[1].pending = <<>>
  /\ Len(hist.accepted) = PipeBytes - 1
  /\ Len(ffmpegPcmCarry) = 1
  /\ hist.nFrames = 1
  /\ outboundPcm8kRemainder # <<>>

\* C35: every audio message drainGeminiFrames sends carries 320 bytes; the
\* messages a callback sends are the frames of the carry followed by the
\* chunk just handed over, in that order; after every callback the carry
\* holds an even number of bytes, fewer than 320; and when a send throws,
\* that frame alone is missing and the frames behind it are sent.
C35_InboundFrames ==
  /\ [](/\ Len(geminiFrameCarry) < GEMINI_FRAME_BYTES
        /\ Len(geminiFrameCarry) % 2 = 0
        /\ \A sid \in 1..Len(sessions) : \A i \in 1..Len(sessions[sid].received) :
             sessions[sid].received[i].kind = "audio" =>
               Len(sessions[sid].received[i].data) = GEMINI_FRAME_BYTES)
  /\ [][(hist'.lastOp = "handleInboundPcm" /\ hist'.lastTrack # "outbound"
            /\ geminiSession # 0) =>
          \E chunk \in {InboundBurst} \cup {InboundChunk(in[1], hist.left.call) : in \in InboundInputs} :
            LET all == geminiFrameCarry \o Aligned(chunk)
                frames == AudioFrames(all)
                threw == sessions[geminiSession].state = "failing" /\ frames # <<>>
            IN  /\ sessions'[geminiSession].received =
                     sessions[geminiSession].received
                       \o (IF threw THEN Tail(frames) ELSE frames)
                /\ geminiFrameCarry' = LeftOver(all)
                /\ threw => sessions'[geminiSession].state = "open"]_vars

\* A chunk of more than two frames was handed over while the session's
\* next send was to throw: the first frame is missing, the second reached
\* the backend, and the rest is carried.
C35_Witness ==
  /\ hist.lastOp = "handleInboundPcm"
  /\ geminiSession = 1
  /\ hist.left.proc = 0
  /\ sessions[1].state = "open"
  /\ Len(sessions[1].received) = 1
  /\ sessions[1].received[1].data = Subarray(InboundBurst, GEMINI_FRAME_BYTES, 2 * GEMINI_FRAME_BYTES)
  /\ geminiFrameCarry = Subarray(InboundBurst, 2 * GEMINI_FRAME_BYTES, 740)

\* C36: when stop() is called while a connection attempt is in flight and
\* the attempt resolves next (no start() and no inbound audio in between),
\* the instance holds no session afterwards and the session the attempt
\* opened is not left open.
C36_StopCancelsConnect ==
  [][(hist.lastOp = "stop" /\ hist'.lastOp = "connectResolved") =>
       /\ geminiSession' = 0
       /\ \A sid \in (Len(sessions) + 1)..Len(sessions') : sessions'[sid].state # "open"]_vars

\* C37: at most one session the instance opened is open at any time, and
\* the close notification of a session the instance no longer refers to
\* (one closed by stop() before a reconnect) leaves the reference to the
\* current session as it is.
C37_LateClose ==
  /\ [](Cardinality({sid \in 1..Len(sessions) : sessions[sid].state = "open"}) <= 1)
  /\ [][(hist'.lastOp = "onclose") =>
          \A sid \in 1..Len(sessions) :
            (sessions[sid].state # "closed" /\ sessions'[sid].state = "closed"
               /\ geminiSession # sid) => geminiSession' = geminiSession]_vars

\* C38: between callbacks the pacing timer is running whenever the queue
\* holds a frame; a tick that finds the transport unwritable or the stream
\* id missing does not leave queued frames behind with the timer stopped.
C38_TimerWhileQueued ==
  (outboundMulawQueue # <<>>) => outboundPlaybackTimer

\* C39: when stop() returns the outbound queue, the outbound PCM remainder,
\* the inbound carry and the transcript of the turn are empty and stop()
\* itself sent nothing to the transport; and no frame is sent that was
\* queued before a stop() that came before the send, the padded frame of
\* that stop()'s own flush included.
C39_StopDiscards ==
  [][/\ (hist'.lastOp = "stop") =>
          /\ outboundMulawQueue' = <<>>
          /\ outboundPcm8kRemainder' = <<>>
          /\ geminiFrameCarry' = <<>>
          /\ currentTurnTranscript' = <<>>
          /\ wsSent' = wsSent
     /\ \A i \in 1..Len(wsSent') :
          wsSent'[i].event = "media" =>
            \A k \in (wsSent'[i].made + 1)..wsSent'[i].epoch : hist'.cuts[k] # "stop"]_vars

\* stop() was called with a frame queued, a partial frame carried, caller
\* audio carried and a transcript begun, and the timer its flush set has
\* fired since: nothing was sent.
C39_Witness ==
  /\ hist.lastOp = "tick"
  /\ Stopped
  /\ hist.dropped >= 2
  /\ hist.pads = 1
  /\ \E sid \in 1..Len(sessions) : sessions[sid].state = "closing"
  /\ MediaSent = {}
  /\ outboundMulawQueue = <<>>
  /\ ~outboundPlaybackTimer

\* C40: the transcription text of a message is appended to the transcript
\* of the turn; a message that completes the turn has the transcript, when
\* it is not empty, played once (its frames are queued behind those that
\* wait) and leaves the transcript empty; an interruption message empties
\* the transcript, plays nothing, and its text and its turn-complete flag
\* are not looked at.  The audio a message carries changes none of this.
C40_TurnTranscript ==
  [][/\ (hist'.lastOp = "interrupted") =>
          /\ currentTurnTranscript' = <<>>
          /\ outboundMulawQueue' = <<>>
          /\ hist'.lastTts = <<>>
          /\ wsSent' = wsSent
     /\ (hist'.lastOp = "onmessage") =>
          \E m \in TextMessages \cup AudioMessages :
            LET said == currentTurnTranscript \o m.text
            IN  /\ currentTurnTranscript' = IF m.turnComplete THEN <<>> ELSE said
                /\ hist'.lastTts =
                     IF m.turnComplete THEN generateTtsAudioForText(said) ELSE <<>>
                /\ outboundMulawQueue' =
                     outboundMulawQueue
                       \o (IF m.turnComplete THEN TtsFrames(generateTtsAudioForText(said), 0)
                           ELSE <<>>)
                /\ wsSent' = wsSent]_vars

\* Two messages with text made a turn, the second one completing it: both
\* texts were played as one prompt, in order, and the transcript is empty.
C40_Witness ==
  /\ hist.lastOp = "onmessage"
  /\ hist.left.event = TurnEvents - 2
  /\ hist.lastTts = generateTtsAudioForText(<<"hi", "thanks">>)
  /\ Len(outboundMulawQueue) = 3
  /\ currentTurnTranscript = <<>>

=============================================================================
